---- MODULE Spec2Model ----
(***************************************************************************)
(* A model of the react-challenges repository.                             *)
(*                                                                         *)
(* Part 1: the useLocalStorage hook (hooks/use-local-storage) as NotesApp  *)
(* uses it, on the key 'react-practice-notes' with the inline default [].  *)
(* The tabs of the origin share one localStorage area and receive the      *)
(* browser's "storage" events for writes made by other documents.          *)
(*   SpecStorage: one tab mounts, updates, re-renders, unmounts and        *)
(*     reloads NotesApp while another script of the origin, which does not *)
(*     use the hook, writes, removes and clears entries (it is where       *)
(*     corrupt JSON, empty entries and deletions come from).               *)
(*   SpecTabs: two tabs with NotesApp mounted write the key and receive    *)
(*     each other's events, in every interleaving.                         *)
(*                                                                         *)
(* Parts 2 to 11, each with a specification of its own in which the other  *)
(* views stay closed:                                                      *)
(*   SpecSearch: the Search and ProductFilters views with useDebounce.     *)
(*   SpecFetch: FetchUsers, its requests and their cancellation.           *)
(*   SpecPage: Pagination.                                                 *)
(*   SpecSolution: the ShowSolution panel.                                 *)
(*   SpecCounter: Counter.                                                 *)
(*   SpecNotes: NotesApp's handlers in two tabs, on the storage of Part 1. *)
(*   SpecCart: ShoppingCart, its reducer, product cards and cart.          *)
(*   SpecTimer: Timer and its interval.                                    *)
(*   SpecForm: FormWithValidation, its request and automatic reset.        *)
(*   SpecTodo: TodoList.                                                   *)
(***************************************************************************)
EXTENDS Integers, Sequences, FiniteSets, TLC

VARIABLES
    docs,       \* the tabs (documents) of the origin that are open
    store,      \* localStorage: key -> entry (present or not, raw text)
    phase,      \* per tab: position of the component in React's lifecycle
    value,      \* per tab: the hook's useState value
    listeners,  \* per tab: number of handleStorage listeners on window
    dirty,      \* per tab: a render was committed whose effect has not run yet
    inbox,      \* per tab: storage events queued for the tab's window
    reads,      \* per tab: localStorage.getItem calls since the mount began
    last        \* the step taken last (operation, tab, argument, outcome)

storageVars == <<docs, store, phase, value, listeners, dirty, inbox, reads, last>>

VARIABLES
    searchView,   \* the view that is open: "Search" or "ProductFilters"
    searchPhase,  \* "mounted", "unmounted", or "crashed" (a render threw)
    searchText,   \* the text in the search box (the view's searchText state)
    debounced,    \* the value useDebounce returns
    timers,       \* the pending setTimeout callbacks of useDebounce
    quiet,        \* ticks since the search text last changed (up to the delay)
    searchLast    \* the step the view took last

searchVars == <<searchView, searchPhase, searchText, debounced, timers, quiet,
                searchLast>>

VARIABLES
    fetchVariant, \* which FetchUsers is open: the challenge page's or the plain one
    fetchPhase,   \* "mounted" or "unmounted"
    users,        \* FetchUsers state: the users loaded
    isLoading,    \* FetchUsers state
    error,        \* FetchUsers state: null or a message
    requests,     \* the fetch requests whose promise has not settled yet
    fetchLast     \* the step FetchUsers took last

fetchVars == <<fetchVariant, fetchPhase, users, isLoading, error, requests,
               fetchLast>>

VARIABLES
    dataLength,   \* Pagination: the length of the data prop
    itemsPerPage, \* Pagination state, in halves (a JS number may be fractional)
    currentPage,  \* Pagination state
    pageLast      \* the step Pagination took last

pageVars == <<dataLength, itemsPerPage, currentPage, pageLast>>

VARIABLES
    solution,      \* ShowSolution: the hints of the solution prop
    showSolution,  \* ShowSolution state: the panel is open
    revealedHints, \* ShowSolution state: indices of the hints revealed, in order
    showCode,      \* ShowSolution state: the solution-code link is shown
    solutionLast   \* the step ShowSolution took last

solutionVars == <<solution, showSolution, revealedHints, showCode, solutionLast>>

VARIABLES
    count,         \* Counter state
    counterLast    \* the step Counter took last

counterVars == <<count, counterLast>>

VARIABLES
    noteState     \* NotesApp: per note id, "new", "added" or "removed"

notesVars == <<noteState>>

VARIABLES
    cartItems,     \* ShoppingCart: the reducer's state, a list of entries
    selected,      \* ProductCard: the quantity selected on each product card
    cartLast       \* the step the cart took last

cartVars == <<cartItems, selected, cartLast>>

VARIABLES
    timerVariant,  \* Timer: which of the Timer components is on screen
    timerPhase,    \* "unmounted", "rendered" (effects pending) or "mounted"
    time,          \* Timer state: seconds counted
    isRunning,     \* Timer state
    intervalRef,   \* intervalRef.current: an interval id, 0 for null
    intervals,     \* the ids of the intervals that are active
    nextInterval,  \* the id setInterval returns next
    timerLast      \* the step the Timer took last

timerVars ==
    <<timerVariant, timerPhase, time, isRunning, intervalRef, intervals,
      nextInterval, timerLast>>

VARIABLES
    formData,      \* FormWithValidation state: name, email and password
    touched,       \* FormWithValidation state: which fields were touched
    isSubmitting,  \* FormWithValidation state
    submitStatus,  \* FormWithValidation state: "null" or "success"
    request,       \* the simulated request: "none", or pending, started by a
                   \* submit of a "valid" or an "invalid" form
    succeeded,     \* the kind of form whose request set the status last
    resets,        \* the automatic resets that are scheduled
    formLast       \* the step the form took last

formVars ==
    <<formData, touched, isSubmitting, submitStatus, request, succeeded,
      resets, formLast>>

VARIABLES
    todos,         \* TodoList state: the todos in insertion order
    inputText,     \* TodoList state: the text in the input field
    filter,        \* TodoList state: the filter selected
    nextTodo,      \* the id crypto.randomUUID() hands out next
    todoLast       \* the step the TodoList took last

todoVars == <<todos, inputText, filter, nextTodo, todoLast>>

vars ==
    <<storageVars, searchVars, fetchVars, pageVars, solutionVars,
      counterVars, notesVars, cartVars, timerVars, formVars, todoVars>>

\* What the steps of one component leave alone: the other components.
exceptStorage ==
    <<searchVars, fetchVars, pageVars, solutionVars, counterVars,
      notesVars, cartVars, timerVars, formVars, todoVars>>
exceptSearch ==
    <<storageVars, fetchVars, pageVars, solutionVars, counterVars,
      notesVars, cartVars, timerVars, formVars, todoVars>>
exceptFetch ==
    <<storageVars, searchVars, pageVars, solutionVars, counterVars,
      notesVars, cartVars, timerVars, formVars, todoVars>>
exceptPage ==
    <<storageVars, searchVars, fetchVars, solutionVars, counterVars,
      notesVars, cartVars, timerVars, formVars, todoVars>>
exceptSolution ==
    <<storageVars, searchVars, fetchVars, pageVars, counterVars, notesVars,
      cartVars, timerVars, formVars, todoVars>>
exceptCounter ==
    <<storageVars, searchVars, fetchVars, pageVars, solutionVars,
      notesVars, cartVars, timerVars, formVars, todoVars>>
exceptNotes ==
    <<searchVars, fetchVars, pageVars, solutionVars, counterVars, cartVars,
      timerVars, formVars, todoVars>>
exceptCart ==
    <<storageVars, searchVars, fetchVars, pageVars, solutionVars,
      counterVars, notesVars, timerVars, formVars, todoVars>>
exceptTimer ==
    <<storageVars, searchVars, fetchVars, pageVars, solutionVars,
      counterVars, notesVars, cartVars, formVars, todoVars>>
exceptForm ==
    <<storageVars, searchVars, fetchVars, pageVars, solutionVars,
      counterVars, notesVars, cartVars, timerVars, todoVars>>
exceptTodo ==
    <<storageVars, searchVars, fetchVars, pageVars, solutionVars,
      counterVars, notesVars, cartVars, timerVars, formVars>>

(***************************************************************************)
(* Bounds of the model.                                                    *)
(***************************************************************************)
\* Storage events that may wait in one tab's task queue.
MaxInbox == 2

(***************************************************************************)
(* JavaScript values.  Every value is a record of the same shape, so that  *)
(* values of different kinds can be compared.                              *)
(***************************************************************************)
JV(t, n, s, ks, xs) == [t |-> t, n |-> n, s |-> s, ks |-> ks, xs |-> xs]

Undefined == JV("undefined", 0, "", <<>>, <<>>)
Null      == JV("null", 0, "", <<>>, <<>>)
Bool(b)   == JV("bool", IF b THEN 1 ELSE 0, "", <<>>, <<>>)
Num(n)    == JV("num", n, "", <<>>, <<>>)
Str(s)    == JV("str", 0, s, <<>>, <<>>)
Arr(xs)   == JV("arr", 0, "", <<>>, xs)
\* An object literal: property names ks with the values xs, in insertion order.
Obj(ks, xs) == JV("obj", 0, "", ks, xs)
\* An object that refers to itself: JSON.stringify throws a TypeError on it.
Cyclic    == JV("cyclic", 0, "", <<>>, <<>>)

\* The numbers and strings that occur in the model's values and texts.
Numbers == 0 .. 1
Strings == {"", "a"}

\* The values handed to updateValue: JSON values (the falsy ones and a
\* notes-like array holding an object that holds an array) and a value that
\* JSON cannot hold.
JsonValues ==
    { Num(0), Bool(FALSE), Null, Str(""), Arr(<<>>),
      Arr(<<Obj(<<"a">>, <<Arr(<<Num(1)>>)>>)>>) }
UpdateValues == JsonValues \cup {Cyclic}

(***************************************************************************)
(* JSON text.  A text is a sequence of JSON tokens; the empty sequence is  *)
(* the empty string.                                                       *)
(***************************************************************************)
Quote(s) == "\"" \o s \o "\""

RECURSIVE JSONText(_)
RECURSIVE JSONElements(_)
RECURSIVE JSONMembers(_, _)
\* The text JSON.stringify writes for a JSON value.
JSONText(v) ==
    CASE v.t = "null" -> <<"null">>
      [] v.t = "bool" -> <<IF v.n = 1 THEN "true" ELSE "false">>
      [] v.t = "num"  -> <<ToString(v.n)>>
      [] v.t = "str"  -> <<Quote(v.s)>>
      [] v.t = "arr"  -> <<"[">> \o JSONElements(v.xs) \o <<"]">>
      [] v.t = "obj"  -> <<"{">> \o JSONMembers(v.ks, v.xs) \o <<"}">>
JSONElements(xs) ==
    IF xs = <<>> THEN <<>>
    ELSE IF Len(xs) = 1 THEN JSONText(xs[1])
    ELSE JSONText(xs[1]) \o <<",">> \o JSONElements(Tail(xs))
JSONMembers(ks, xs) ==
    IF ks = <<>> THEN <<>>
    ELSE IF Len(ks) = 1 THEN <<Quote(ks[1]), ":">> \o JSONText(xs[1])
    ELSE <<Quote(ks[1]), ":">> \o JSONText(xs[1]) \o <<",">>
         \o JSONMembers(Tail(ks), Tail(xs))

\* JSON.stringify(v): throws a TypeError on a cyclic object, and returns the
\* JSON text of a JSON value.
JSONstringify(v) ==
    IF v.t = "cyclic" THEN [threw |-> TRUE, text |-> <<>>]
    ELSE [threw |-> FALSE, text |-> JSONText(v)]

ParseFail == [ok |-> FALSE, val |-> Undefined, next |-> 0]
ParseOk(v, next) == [ok |-> TRUE, val |-> v, next |-> next]

RECURSIVE ParseValue(_, _)
RECURSIVE ParseElements(_, _, _)
RECURSIVE ParseMembers(_, _, _, _)
\* One JSON value read from token i of toks: the value and the next position.
ParseValue(toks, i) ==
    IF i > Len(toks) THEN ParseFail
    ELSE LET tk == toks[i] IN
         CASE tk = "null"  -> ParseOk(Null, i + 1)
           [] tk = "true"  -> ParseOk(Bool(TRUE), i + 1)
           [] tk = "false" -> ParseOk(Bool(FALSE), i + 1)
           [] \E n \in Numbers : ToString(n) = tk ->
                ParseOk(Num(CHOOSE n \in Numbers : ToString(n) = tk), i + 1)
           [] \E s \in Strings : Quote(s) = tk ->
                ParseOk(Str(CHOOSE s \in Strings : Quote(s) = tk), i + 1)
           [] tk = "[" ->
                IF i + 1 <= Len(toks) /\ toks[i + 1] = "]"
                THEN ParseOk(Arr(<<>>), i + 2)
                ELSE ParseElements(toks, i + 1, <<>>)
           [] tk = "{" ->
                IF i + 1 <= Len(toks) /\ toks[i + 1] = "}"
                THEN ParseOk(Obj(<<>>, <<>>), i + 2)
                ELSE ParseMembers(toks, i + 1, <<>>, <<>>)
           [] OTHER -> ParseFail
ParseElements(toks, i, acc) ==
    LET r == ParseValue(toks, i) IN
    IF ~r.ok \/ r.next > Len(toks) THEN ParseFail
    ELSE IF toks[r.next] = "," THEN ParseElements(toks, r.next + 1, Append(acc, r.val))
    ELSE IF toks[r.next] = "]" THEN ParseOk(Arr(Append(acc, r.val)), r.next + 1)
    ELSE ParseFail
ParseMembers(toks, i, ks, xs) ==
    IF i + 1 > Len(toks) THEN ParseFail
    ELSE IF ~(\E s \in Strings : Quote(s) = toks[i]) \/ toks[i + 1] # ":" THEN ParseFail
    ELSE LET k == CHOOSE s \in Strings : Quote(s) = toks[i]
             r == ParseValue(toks, i + 2)
         IN  IF ~r.ok \/ r.next > Len(toks) THEN ParseFail
             ELSE IF toks[r.next] = ","
                  THEN ParseMembers(toks, r.next + 1, Append(ks, k), Append(xs, r.val))
             ELSE IF toks[r.next] = "}"
                  THEN ParseOk(Obj(Append(ks, k), Append(xs, r.val)), r.next + 1)
             ELSE ParseFail

\* JSON.parse(text): the value, or a SyntaxError (ok = FALSE) when the text is
\* not exactly one JSON value.
JSONparse(text) ==
    LET r == ParseValue(text, 1) IN
    IF r.ok /\ r.next = Len(text) + 1
    THEN [ok |-> TRUE, val |-> r.val]
    ELSE [ok |-> FALSE, val |-> Undefined]

(***************************************************************************)
(* The storage area and its events.                                        *)
(***************************************************************************)
Tabs == {"tab1", "tab2"}

\* The key NotesApp passes to the hook, and another key of the same origin.
NotesKey == "react-practice-notes"
OtherKey == "other-key"
Keys == {NotesKey, OtherKey}
\* The key of the event localStorage.clear() fires (null in the browser).
NoKey == "<null>"

\* The default NotesApp passes: the empty array.
InitialValue == Arr(<<>>)

\* What getItem returns and what an event's newValue holds: a text, or null.
NullEntry == [has |-> FALSE, raw |-> <<>>]
Entry(text) == [has |-> TRUE, raw |-> text]
\* JavaScript truthiness of a string-or-null: null and "" are falsy.
Truthy(e) == e.has /\ e.raw # <<>>

\* Texts the other script writes: the empty string, corrupt JSON, valid JSON.
ExternalTexts == {<<>>, <<"{">>, <<"0">>}

StorageEvent(k, newValue) == [key |-> k, newValue |-> newValue]
NoEvent == StorageEvent(NoKey, NullEntry)

\* The record kept of the last step: the operation, the tab, updateValue's
\* argument and whether the store had room for it, the event dispatched,
\* whether an exception left the hook and whether JSON.parse failed.
Step(op, tab, val, quotaOk, ev, threw, parseFailed) ==
    [op |-> op, tab |-> tab, val |-> val, quotaOk |-> quotaOk, ev |-> ev,
     threw |-> threw, parseFailed |-> parseFailed]
\* A step of the component's lifecycle that no handler of the hook runs in.
Lifecycle == Step("lifecycle", "none", Undefined, FALSE, NoEvent, FALSE, FALSE)
\* A step of the other script.
Script == Step("script", "none", Undefined, FALSE, NoEvent, FALSE, FALSE)

\* The documents a write made by `writer` notifies: every other open one.
Notified(writer) == docs \ {writer}
\* The inboxes after `writer` changed the storage area (changed: the write
\* changed something; the browser fires no event otherwise).
Fire(writer, e, changed) ==
    [t \in Tabs |-> IF changed /\ t \in Notified(writer)
                    THEN Append(inbox[t], e) ELSE inbox[t]]
Room(writer) == \A t \in Notified(writer) : Len(inbox[t]) < MaxInbox

(***************************************************************************)
(* useLocalStorage.                                                        *)
(***************************************************************************)
\* Mutant: the initializer without its try/catch.
LazyInit_NoCatch(stored, initialValue) ==
    IF Truthy(stored)
    THEN LET r == JSONparse(stored.raw) IN
         IF r.ok THEN [threw |-> FALSE, parseFailed |-> FALSE, val |-> r.val]
         ELSE [threw |-> TRUE, parseFailed |-> TRUE, val |-> Undefined]
    ELSE [threw |-> FALSE, parseFailed |-> FALSE, val |-> initialValue]

\* JavaScript truthiness of a value.
TruthyValue(v) ==
    ~(v.t \in {"undefined", "null"} \/ (v.t = "bool" /\ v.n = 0)
      \/ (v.t = "num" /\ v.n = 0) \/ (v.t = "str" /\ v.s = ""))

\* Mutant: the default is taken whenever the parsed value is falsy
\* (JSON.parse(stored) || initialValue).
LazyInit_FalsyDefault(stored, initialValue) ==
    IF Truthy(stored)
    THEN LET r == JSONparse(stored.raw) IN
         IF r.ok /\ TruthyValue(r.val)
         THEN [threw |-> FALSE, parseFailed |-> FALSE, val |-> r.val]
         ELSE [threw |-> FALSE, parseFailed |-> ~r.ok, val |-> initialValue]
    ELSE [threw |-> FALSE, parseFailed |-> FALSE, val |-> initialValue]

\* The lazy initializer of useState: getItem, then parse under try/catch.
LazyInit(stored, initialValue) ==
    IF Truthy(stored)
    THEN LET r == JSONparse(stored.raw) IN
         IF r.ok THEN [threw |-> FALSE, parseFailed |-> FALSE, val |-> r.val]
         ELSE [threw |-> FALSE, parseFailed |-> TRUE, val |-> initialValue]
    ELSE [threw |-> FALSE, parseFailed |-> FALSE, val |-> initialValue]

\* Mutant: setItem before setValue, so a failed write skips the state update.
UpdateOutcome_StoreFirst(cur, newValue, entry, quotaOk) ==
    LET s == JSONstringify(newValue) IN
    IF s.threw \/ ~quotaOk
    THEN [val |-> cur, entry |-> entry, threw |-> FALSE]
    ELSE [val |-> newValue, entry |-> Entry(s.text), threw |-> FALSE]

\* Mutant: the state variable of the current render is written to the store
\* (JSON.stringify(value)) instead of the new value.
UpdateOutcome_StaleWrite(cur, newValue, entry, quotaOk) ==
    LET s == JSONstringify(cur) IN
    IF s.threw \/ ~quotaOk
    THEN [val |-> newValue, entry |-> entry, threw |-> FALSE]
    ELSE [val |-> newValue, entry |-> Entry(s.text), threw |-> FALSE]

\* updateValue(newValue) on a hook holding cur while the store holds entry:
\* setValue first, then stringify and setItem, everything under try/catch.
\* quotaOk: the storage area has room for the text (else setItem throws).
UpdateOutcome(cur, newValue, entry, quotaOk) ==
    LET s == JSONstringify(newValue) IN
    IF s.threw \/ ~quotaOk
    THEN [val |-> newValue, entry |-> entry, threw |-> FALSE]
    ELSE [val |-> newValue, entry |-> Entry(s.text), threw |-> FALSE]

\* Mutant: the handler without the test of the event's key.
HandleStorage_AnyKey(cur, e, key, initialValue) ==
    IF Truthy(e.newValue)
    THEN LET r == JSONparse(e.newValue.raw) IN
         IF r.ok
         THEN [threw |-> FALSE, parseFailed |-> FALSE, set |-> TRUE, val |-> r.val]
         ELSE [threw |-> TRUE, parseFailed |-> TRUE, set |-> FALSE, val |-> cur]
    ELSE [threw |-> FALSE, parseFailed |-> FALSE, set |-> TRUE, val |-> initialValue]

\* Mutant: setValue(JSON.parse(e.newValue)) with no fallback to the default
\* (JSON.parse(null) is null, JSON.parse("") throws).
HandleStorage_NoDefault(cur, e, key, initialValue) ==
    IF e.key = key
    THEN LET r == IF e.newValue.has THEN JSONparse(e.newValue.raw)
                  ELSE [ok |-> TRUE, val |-> Null] IN
         IF r.ok
         THEN [threw |-> FALSE, parseFailed |-> FALSE, set |-> TRUE, val |-> r.val]
         ELSE [threw |-> TRUE, parseFailed |-> TRUE, set |-> FALSE, val |-> cur]
    ELSE [threw |-> FALSE, parseFailed |-> FALSE, set |-> FALSE, val |-> cur]

\* handleStorage(e) of a hook on `key` holding cur.  set: setValue is called.
HandleStorage(cur, e, key, initialValue) ==
    IF e.key = key
    THEN IF Truthy(e.newValue)
         THEN LET r == JSONparse(e.newValue.raw) IN
              IF r.ok
              THEN [threw |-> FALSE, parseFailed |-> FALSE, set |-> TRUE, val |-> r.val]
              ELSE [threw |-> TRUE, parseFailed |-> TRUE, set |-> FALSE, val |-> cur]
         ELSE [threw |-> FALSE, parseFailed |-> FALSE, set |-> TRUE, val |-> initialValue]
    ELSE [threw |-> FALSE, parseFailed |-> FALSE, set |-> FALSE, val |-> cur]

\* Mutant: the cleanup removes nothing (removeEventListener is given a
\* function that was never added).
EffectCleanup_Leak(n) == n

\* The effect: setup adds handleStorage to window, cleanup removes it.
EffectSetup(n) == n + 1
EffectCleanup(n) == IF n > 0 THEN n - 1 ELSE 0

\* Mutant: the initial value is computed on every render (useState is given
\* the value, not a function).
RenderReads_Eager(first, strict) == IF first /\ strict THEN 2 ELSE 1

\* getItem calls made by one render of the hook.  useState runs its
\* initializer on the first render only; React's development build under
\* StrictMode (the entry point wraps the app in it) invokes the initializer
\* a second time and discards that result.
RenderReads(first, strict) ==
    IF first THEN (IF strict THEN 2 ELSE 1) ELSE 0

InitializerReads(strict) == RenderReads(TRUE, strict)

\* Mutant: the first render also writes the default when the key is absent.
Mount_WritesDefault(t) ==
    /\ t \in docs
    /\ phase[t] = "unmounted"
    /\ LET r == LazyInit(store[NotesKey], InitialValue) IN
       /\ phase' = [phase EXCEPT ![t] = IF r.threw THEN "unmounted" ELSE "rendered"]
       /\ value' = [value EXCEPT ![t] = IF r.threw THEN Undefined ELSE r.val]
       /\ last' = Step("mount", t, Undefined, FALSE, NoEvent, r.threw, r.parseFailed)
    /\ \E strict \in BOOLEAN :
          reads' = [reads EXCEPT ![t] = InitializerReads(strict)]
    /\ store' = [store EXCEPT ![NotesKey] =
                   IF @.has THEN @ ELSE Entry(JSONText(InitialValue))]
    /\ UNCHANGED <<docs, listeners, dirty, inbox>>
    /\ UNCHANGED exceptStorage

\* The component renders for the first time: useState runs the initializer.
Mount(t) ==
    /\ t \in docs
    /\ phase[t] = "unmounted"
    /\ LET r == LazyInit(store[NotesKey], InitialValue) IN
       /\ phase' = [phase EXCEPT ![t] = IF r.threw THEN "unmounted" ELSE "rendered"]
       /\ value' = [value EXCEPT ![t] = IF r.threw THEN Undefined ELSE r.val]
       /\ last' = Step("mount", t, Undefined, FALSE, NoEvent, r.threw, r.parseFailed)
    /\ \E strict \in BOOLEAN :
          reads' = [reads EXCEPT ![t] = InitializerReads(strict)]
    /\ UNCHANGED <<docs, store, listeners, dirty, inbox>>
    /\ UNCHANGED exceptStorage

\* The effect runs after the first commit.  strict: the development build
\* under StrictMode runs setup, cleanup and setup again.
MountEffect(t, strict) ==
    /\ phase[t] = "rendered"
    /\ phase' = [phase EXCEPT ![t] = "mounted"]
    /\ listeners' = [listeners EXCEPT ![t] =
                       IF strict THEN EffectSetup(EffectCleanup(EffectSetup(@)))
                       ELSE EffectSetup(@)]
    /\ last' = Lifecycle
    /\ UNCHANGED <<docs, store, value, dirty, inbox, reads>>
    /\ UNCHANGED exceptStorage

\* After a re-render the effect runs again (NotesApp's inline [] is a new
\* dependency each render): cleanup of the previous run, then setup.
RerunEffect(t) ==
    /\ phase[t] = "mounted"
    /\ dirty[t]
    /\ dirty' = [dirty EXCEPT ![t] = FALSE]
    /\ listeners' = [listeners EXCEPT ![t] = EffectSetup(EffectCleanup(@))]
    /\ reads' = [reads EXCEPT ![t] = @ + RenderReads(FALSE, FALSE)]
    /\ last' = Lifecycle
    /\ UNCHANGED <<docs, store, phase, value, inbox>>
    /\ UNCHANGED exceptStorage

\* The component calls the hook's update function.
UpdateValue(t, newValue, quotaOk) ==
    /\ phase[t] = "mounted"
    /\ Room(t)
    /\ LET o == UpdateOutcome(value[t], newValue, store[NotesKey], quotaOk) IN
       /\ value' = [value EXCEPT ![t] = o.val]
       /\ dirty' = [dirty EXCEPT ![t] = TRUE]
       /\ store' = [store EXCEPT ![NotesKey] = o.entry]
       /\ inbox' = Fire(t, StorageEvent(NotesKey, o.entry), o.entry # store[NotesKey])
       /\ last' = Step("update", t, newValue, quotaOk, NoEvent, o.threw, FALSE)
    /\ UNCHANGED <<docs, phase, listeners, reads>>
    /\ UNCHANGED exceptStorage

\* The tab's window dispatches the next queued storage event to its listeners.
Deliver(t) ==
    /\ inbox[t] # <<>>
    /\ inbox' = [inbox EXCEPT ![t] = Tail(@)]
    /\ LET e == Head(inbox[t])
           h == HandleStorage(value[t], e, NotesKey, InitialValue)
           heard == listeners[t] > 0
           \* React drops a state update of a component that is not mounted
           applies == heard /\ h.set /\ phase[t] = "mounted"
       IN  /\ value' = [value EXCEPT ![t] = IF applies THEN h.val ELSE @]
           /\ dirty' = [dirty EXCEPT ![t] = IF applies THEN TRUE ELSE @]
           /\ last' = IF heard
                      THEN Step("storage", t, Undefined, FALSE, e, h.threw, h.parseFailed)
                      ELSE Lifecycle
    /\ UNCHANGED <<docs, store, phase, listeners, reads>>
    /\ UNCHANGED exceptStorage

\* The component is removed: pending effects are flushed, then cleaned up.
Unmount(t) ==
    /\ phase[t] \in {"rendered", "mounted"}
    /\ phase' = [phase EXCEPT ![t] = "unmounted"]
    /\ listeners' = [listeners EXCEPT ![t] =
                       IF phase[t] = "rendered" THEN EffectCleanup(EffectSetup(@))
                       ELSE EffectCleanup(@)]
    /\ value' = [value EXCEPT ![t] = Undefined]
    /\ dirty' = [dirty EXCEPT ![t] = FALSE]
    /\ reads' = [reads EXCEPT ![t] = 0]
    /\ last' = Lifecycle
    /\ UNCHANGED <<docs, store, inbox>>
    /\ UNCHANGED exceptStorage

\* The user reloads the page: the document goes away with its window (no
\* cleanup runs, queued events are lost) and the new document renders
\* NotesApp afresh.
Reload(t) ==
    /\ phase[t] = "mounted"
    /\ LET r == LazyInit(store[NotesKey], InitialValue) IN
       /\ phase' = [phase EXCEPT ![t] = IF r.threw THEN "unmounted" ELSE "rendered"]
       /\ value' = [value EXCEPT ![t] = IF r.threw THEN Undefined ELSE r.val]
       /\ last' = Step("mount", t, Undefined, FALSE, NoEvent, r.threw, r.parseFailed)
    /\ \E strict \in BOOLEAN :
          reads' = [reads EXCEPT ![t] = InitializerReads(strict)]
    /\ listeners' = [listeners EXCEPT ![t] = 0]
    /\ dirty' = [dirty EXCEPT ![t] = FALSE]
    /\ inbox' = [inbox EXCEPT ![t] = <<>>]
    /\ UNCHANGED <<docs, store>>
    /\ UNCHANGED exceptStorage

(***************************************************************************)
(* The other script of the origin.                                         *)
(***************************************************************************)
ExternalSetItem(k, text) ==
    /\ Room("script")
    /\ store' = [store EXCEPT ![k] = Entry(text)]
    /\ inbox' = Fire("script", StorageEvent(k, Entry(text)), store[k] # Entry(text))
    /\ last' = Script
    /\ UNCHANGED <<docs, phase, value, listeners, dirty, reads>>
    /\ UNCHANGED exceptStorage

ExternalRemoveItem(k) ==
    /\ Room("script")
    /\ store[k].has
    /\ store' = [store EXCEPT ![k] = NullEntry]
    /\ inbox' = Fire("script", StorageEvent(k, NullEntry), TRUE)
    /\ last' = Script
    /\ UNCHANGED <<docs, phase, value, listeners, dirty, reads>>
    /\ UNCHANGED exceptStorage

ExternalClear ==
    /\ Room("script")
    /\ \E k \in Keys : store[k].has
    /\ store' = [k \in Keys |-> NullEntry]
    /\ inbox' = Fire("script", StorageEvent(NoKey, NullEntry), TRUE)
    /\ last' = Script
    /\ UNCHANGED <<docs, phase, value, listeners, dirty, reads>>
    /\ UNCHANGED exceptStorage

\* No tab of the origin is open.
StorageClosed ==
    /\ docs = {}
    /\ store = [k \in Keys |-> NullEntry]
    /\ phase = [t \in Tabs |-> "unmounted"]
    /\ value = [t \in Tabs |-> Undefined]
    /\ listeners = [t \in Tabs |-> 0]
    /\ dirty = [t \in Tabs |-> FALSE]
    /\ inbox = [t \in Tabs |-> <<>>]
    /\ reads = [t \in Tabs |-> 0]
    /\ last = Lifecycle

\* The search views are not open.
SearchClosed ==
    /\ searchView = "Search"
    /\ searchPhase = "unmounted"
    /\ searchText = <<>>
    /\ debounced = <<>>
    /\ timers = {}
    /\ quiet = 0
    /\ searchLast = [op |-> "none", pending |-> FALSE, burst |-> 0]

\* FetchUsers' error state: null, or the message of the Error caught.
NoError == "null"

\* FetchUsers is not open.
FetchClosed ==
    /\ fetchVariant = "page"
    /\ fetchPhase = "unmounted"
    /\ users = <<>>
    /\ isLoading = TRUE
    /\ error = NoError
    /\ requests = {}
    /\ fetchLast = [op |-> "none", kind |-> "none", outcome |-> "none", live |-> FALSE]

\* Pagination is not open.
PageClosed ==
    /\ dataLength = 0
    /\ itemsPerPage = 0
    /\ currentPage = 0
    /\ pageLast = [op |-> "none", page |-> 0, pages |-> 0, entered |-> 0]

\* ShowSolution is not rendered.
SolutionClosed ==
    /\ solution = [defined |-> FALSE, length |-> 0]
    /\ showSolution = FALSE
    /\ revealedHints = <<>>
    /\ showCode = FALSE
    /\ solutionLast = [op |-> "none", index |-> 0, hadCode |-> FALSE]

\* Counter is not rendered.
CounterClosed ==
    /\ count = 0
    /\ counterLast = [op |-> "none", count |-> 0]

\* No note was added yet.
NotesClosed ==
    noteState = [id \in Numbers |-> "new"]

\* The cart is not on screen.
CartClosed ==
    /\ cartItems = <<>>
    /\ selected = <<>>
    /\ cartLast = [op |-> "none", id |-> 0, quantity |-> 0,
                   before |-> <<>>, given |-> <<>>]

\* No Timer is on screen.
TimerClosed ==
    /\ timerVariant = "route"
    /\ timerPhase = "unmounted"
    /\ time = 0
    /\ isRunning = FALSE
    /\ intervalRef = 0
    /\ intervals = {}
    /\ nextInterval = 1
    /\ timerLast = [op |-> "none", time |-> 0, running |-> FALSE]

\* The form is as it is constructed.
FormClosed ==
    /\ formData = [name |-> <<>>, email |-> <<>>, password |-> <<>>]
    /\ touched = [name |-> FALSE, email |-> FALSE, password |-> FALSE]
    /\ isSubmitting = FALSE
    /\ submitStatus = "null"
    /\ request = "none"
    /\ succeeded = "none"
    /\ resets = 0
    /\ formLast = [op |-> "none", valid |-> FALSE, submitting |-> FALSE,
                   status |-> "null", request |-> "none"]

\* The TodoList is as it is constructed.
TodoClosed ==
    /\ todos = <<>>
    /\ inputText = <<>>
    /\ filter = "All"
    /\ nextTodo = 1
    /\ todoLast = [op |-> "none", id |-> 0, input |-> <<>>, before |-> <<>>]

(***************************************************************************)
(* SpecStorage: one tab with NotesApp and the other script of the origin.  *)
(***************************************************************************)
\* A page load: the component is not mounted yet; the store holds what
\* earlier sessions and scripts left under the notes key.
StorageInit ==
    /\ docs = {"tab1"}
    /\ store \in {[k \in Keys |-> IF k = NotesKey THEN e ELSE NullEntry] :
                    e \in {NullEntry} \cup {Entry(x) : x \in ExternalTexts}}
    /\ phase = [t \in Tabs |-> "unmounted"]
    /\ value = [t \in Tabs |-> Undefined]
    /\ listeners = [t \in Tabs |-> 0]
    /\ dirty = [t \in Tabs |-> FALSE]
    /\ inbox = [t \in Tabs |-> <<>>]
    /\ reads = [t \in Tabs |-> 0]
    /\ last = Lifecycle
    /\ SearchClosed
    /\ FetchClosed
    /\ PageClosed
    /\ SolutionClosed
    /\ CounterClosed
    /\ NotesClosed
    /\ CartClosed
    /\ TimerClosed
    /\ FormClosed
    /\ TodoClosed

StorageNext ==
    \/ \E t \in Tabs : Mount(t)
    \/ \E t \in Tabs, strict \in BOOLEAN : MountEffect(t, strict)
    \/ \E t \in Tabs : RerunEffect(t)
    \/ \E t \in Tabs, v \in UpdateValues, quotaOk \in BOOLEAN : UpdateValue(t, v, quotaOk)
    \/ \E t \in Tabs : Deliver(t)
    \/ \E t \in Tabs : Unmount(t)
    \/ \E t \in Tabs : Reload(t)
    \/ \E x \in ExternalTexts : ExternalSetItem(NotesKey, x)
    \/ ExternalSetItem(OtherKey, <<"1">>)
    \/ \E k \in Keys : ExternalRemoveItem(k)
    \/ ExternalClear

SpecStorage == StorageInit /\ [][StorageNext]_vars

(***************************************************************************)
(* SpecTabs: two tabs that both have NotesApp mounted, every store write   *)
(* succeeds and nothing but the two hooks writes the store.                *)
(***************************************************************************)
\* What a read of the store under the notes key yields: the hook's view of it.
StoreValue == LazyInit(store[NotesKey], InitialValue).val

TabsInit ==
    /\ docs = Tabs
    /\ store \in {[k \in Keys |-> IF k = NotesKey THEN e ELSE NullEntry] :
                    e \in {NullEntry, Entry(<<"0">>)}}
    /\ phase = [t \in Tabs |-> "mounted"]
    /\ value = [t \in Tabs |-> StoreValue]
    /\ listeners = [t \in Tabs |-> EffectSetup(0)]
    /\ dirty = [t \in Tabs |-> FALSE]
    /\ inbox = [t \in Tabs |-> <<>>]
    /\ reads = [t \in Tabs |-> RenderReads(TRUE, FALSE)]
    /\ last = Lifecycle
    /\ SearchClosed
    /\ FetchClosed
    /\ PageClosed
    /\ SolutionClosed
    /\ CounterClosed
    /\ NotesClosed
    /\ CartClosed
    /\ TimerClosed
    /\ FormClosed
    /\ TodoClosed

TabsNext ==
    \/ \E t \in Tabs, v \in JsonValues : UpdateValue(t, v, TRUE)
    \/ \E t \in Tabs : Deliver(t)
    \/ \E t \in Tabs : RerunEffect(t)

SpecTabs == TabsInit /\ [][TabsNext]_vars

(***************************************************************************)
(* Claims about useLocalStorage.                                           *)
(***************************************************************************)
\* A step in which JSON.parse failed inside the hook.
ParseFailedStep == last.op \in {"mount", "storage"} /\ last.parseFailed

\* C1 (as claimed): after every step in which JSON.parse failed inside the
\* hook - in the lazy initializer or in handleStorage for the hook's key -
\* no exception has left the hook and the tab's in-memory value is the
\* default value.
C1_ParseFailureFallsBack ==
    ParseFailedStep => ~last.threw /\ value[last.tab] = InitialValue

\* No storage event is waiting in any tab.
Quiescent == \A t \in Tabs : inbox[t] = <<>>

\* C2 (as claimed): whenever every notification has been delivered, each
\* mounted tab's in-memory value is the value the store holds under the key.
C2_TabsAgreeWhenQuiescent ==
    Quiescent => \A t \in Tabs : phase[t] = "mounted" => value[t] = StoreValue

\* The hook's write of the step st reaches the store: the value has a JSON
\* text and the storage area has room for it.
WriteSucceeds(st) == st.op = "update" /\ st.quotaOk /\ ~JSONstringify(st.val).threw
WriteFails(st) == st.op = "update" /\ ~(st.quotaOk /\ ~JSONstringify(st.val).threw)

\* C3 (as claimed): a first read that finds no entry creates one holding the
\* default, every explicit write updates the entry, and only the explicit
\* operations of other code remove it.
C3_EntryCreatedOnFirstRead ==
    [][ /\ last'.op = "mount" =>
             store'[NotesKey] = IF store[NotesKey].has THEN store[NotesKey]
                                ELSE Entry(JSONText(InitialValue))
        /\ WriteSucceeds(last') => store'[NotesKey] = Entry(JSONText(last'.val))
        /\ (store[NotesKey].has /\ ~store'[NotesKey].has) => last'.op = "script"
      ]_vars

\* C3 (amended): a first read that finds no entry leaves the store without
\* one (the default lives in memory only); the entry is created or replaced
\* by every explicit write that reaches the store; every other step of the
\* hook - a failed write, a render, an effect, a notification, an unmount,
\* a reload - leaves the store as it was.
C3_EntryLifecycle ==
    [][ /\ last'.op = "mount" => store' = store
        /\ WriteSucceeds(last') =>
             store' = [store EXCEPT ![NotesKey] = Entry(JSONText(last'.val))]
        /\ (last'.op # "script" /\ ~WriteSucceeds(last')) => store' = store
      ]_vars

\* C3 witness: the hook has just been mounted on a store without the key, it
\* holds the default and the store still has no entry.
C3_Witness ==
    /\ last.op = "mount"
    /\ ~store[NotesKey].has
    /\ value[last.tab] = InitialValue

\* The entry gives the initializer nothing to use: absent, empty or not JSON.
Unusable(e) == ~e.has \/ e.raw = <<>> \/ ~JSONparse(e.raw).ok

\* C4: after a first render that found no entry, an empty entry or an entry
\* that is not valid JSON, the hook holds the default, the component has
\* rendered and no exception left the initializer.
C4_DefaultFallback ==
    (last.op = "mount" /\ Unusable(store[NotesKey])) =>
        /\ ~last.threw
        /\ phase[last.tab] = "rendered"
        /\ value[last.tab] = InitialValue

\* C4 witness: a first render on a corrupt entry ended with the default.
C4_Witness ==
    /\ last.op = "mount"
    /\ store[NotesKey] = Entry(<<"{">>)
    /\ value[last.tab] = InitialValue

\* C5: when updateValue(V1) with a JSON value V1 has reached the store and
\* the next step mounts a fresh instance (the page is reloaded), the fresh
\* instance's initial value is V1.
C5_RoundTrip ==
    [][ (WriteSucceeds(last) /\ last'.op = "mount") =>
            ~last'.threw /\ value'[last'.tab] = last.val ]_vars

\* C5 witness: a fresh instance started with the empty string, which only an
\* update of the hook can have put into the store.
C5_Witness ==
    /\ last.op = "mount"
    /\ store[NotesKey] = Entry(<<Quote("")>>)
    /\ value[last.tab] = Str("")

\* C6: a storage event for the hook's key whose newValue parses as V2 sets
\* the mounted instance's value to V2; an event for any other key (or for
\* no key, as clear() fires) leaves the value as it was and throws nothing.
C6_Propagation ==
    [][ (last'.op = "storage" /\ phase[last'.tab] = "mounted") =>
          LET e == last'.ev
              t == last'.tab
          IN  /\ (e.key = NotesKey /\ e.newValue.has /\ JSONparse(e.newValue.raw).ok) =>
                    value'[t] = JSONparse(e.newValue.raw).val
              /\ e.key # NotesKey => (value'[t] = value[t] /\ ~last'.threw)
      ]_vars

\* C6 witness: the event carrying the text 0 for the hook's key was handled
\* and the instance holds the number 0.
C6_Witness ==
    /\ last.op = "storage"
    /\ last.ev = StorageEvent(NotesKey, Entry(<<"0">>))
    /\ value[last.tab] = Num(0)

\* C7: after a storage event for the hook's key whose newValue is null (the
\* entry was removed) or the empty string was handled by a mounted instance,
\* the instance holds the default and nothing was thrown.
C7_DeletionResets ==
    (/\ last.op = "storage"
     /\ phase[last.tab] = "mounted"
     /\ last.ev.key = NotesKey
     /\ ~Truthy(last.ev.newValue)) =>
        (value[last.tab] = InitialValue /\ ~last.threw)

\* C7 witness: the event of a removal of the hook's key was handled.
C7_Witness ==
    /\ last.op = "storage"
    /\ last.ev = StorageEvent(NotesKey, NullEntry)
    /\ value[last.tab] = InitialValue
    /\ dirty[last.tab]

\* C8: an update whose store write fails (no room, or the value has no JSON
\* text) still sets the in-memory value to the new value, throws nothing to
\* the caller and leaves the store exactly as it was.
C8_WriteFailure ==
    [][ WriteFails(last') =>
          /\ value'[last'.tab] = last'.val
          /\ ~last'.threw
          /\ store' = store ]_vars

\* C8 witness: an update with 0 failed for lack of room: the instance holds
\* 0 and the store has no entry.
C8_Witness ==
    /\ last.op = "update"
    /\ ~last.quotaOk
    /\ last.val = Num(0)
    /\ value[last.tab] = Num(0)
    /\ ~store[NotesKey].has

\* C9: right after an update with V1 that reached the store, the tab's
\* in-memory value is V1 and the store's entry for the key parses to V1.
C9_WriteAgreement ==
    WriteSucceeds(last) =>
        /\ value[last.tab] = last.val
        /\ store[NotesKey].has
        /\ JSONparse(store[NotesKey].raw) = [ok |-> TRUE, val |-> last.val]

\* C9 witness: an update with the array of one object has just been stored.
C9_Witness ==
    /\ WriteSucceeds(last)
    /\ last.val = Arr(<<Obj(<<"a">>, <<Arr(<<Num(1)>>)>>)>>)
    /\ value[last.tab] = last.val

\* C10: an instance whose mount effect has run has exactly one listener on
\* window, also after the effect has run again for a re-render; before the
\* effect and after unmount it has none; and while the instance is
\* unmounted no step changes its state.
C10_OneSubscription ==
    [][ \A t \in Tabs :
          /\ phase'[t] = "mounted" => listeners'[t] = 1
          /\ phase'[t] # "mounted" => listeners'[t] = 0
          /\ (phase[t] = "unmounted" /\ phase'[t] = "unmounted") => value'[t] = value[t]
      ]_vars

\* C10 witness: the instance took the value 0, its effect has run again for
\* that render, and one listener is registered.
C10_Witness ==
    /\ phase["tab1"] = "mounted"
    /\ value["tab1"] = Num(0)
    /\ ~dirty["tab1"]
    /\ listeners["tab1"] = 1

DebounceTicks == 2
\* Characters the search box holds at most.
MaxText == 2

\* The keys the user presses.
TypedChars == {"a", "(", ")", " "}

\* String.prototype.toLowerCase.
LowerChar(c) == IF c = "A" THEN "a" ELSE c
toLowerCase(str) == [i \in 1 .. Len(str) |-> LowerChar(str[i])]

\* String.prototype.trim.
RECURSIVE trimStart(_)
trimStart(str) ==
    IF str # <<>> /\ Head(str) = " " THEN trimStart(Tail(str)) ELSE str
RECURSIVE trimEnd(_)
trimEnd(str) ==
    IF str # <<>> /\ str[Len(str)] = " "
    THEN trimEnd(SubSeq(str, 1, Len(str) - 1))
    ELSE str
trim(str) == trimEnd(trimStart(str))

\* String.prototype.includes.
includes(str, q) ==
    \E i \in 0 .. Len(str) :
        i + Len(q) <= Len(str) /\ SubSeq(str, i + 1, i + Len(q)) = q

\* new RegExp(source) throws a SyntaxError on a source that is not a
\* pattern.  Of the pattern grammar the typed keys reach groups and
\* literals: the source is a pattern iff its parentheses pair up.
RECURSIVE GroupsPairUp(_, _)
GroupsPairUp(source, depth) ==
    IF source = <<>> THEN depth = 0
    ELSE IF Head(source) = "(" THEN GroupsPairUp(Tail(source), depth + 1)
    ELSE IF Head(source) = ")"
         THEN depth > 0 /\ GroupsPairUp(Tail(source), depth - 1)
    ELSE GroupsPairUp(Tail(source), depth)
RegExpThrows(source) == ~GroupsPairUp(source, 0)

\* highlightMatch(text): the typed text, trimmed, becomes the source of a
\* capturing group as it is, with nothing escaped.
highlightMatchThrows(searchQuery) ==
    /\ trim(searchQuery) # <<>>
    /\ RegExpThrows(<<"(">> \o trim(searchQuery) \o <<")">>)

\* Stand-ins for the twelve fruits and the eight products: capitalised
\* names, product names of two words.
FRUITS_DATA ==
    { [name |-> <<"A", "a">>, color |-> <<"A">>, season |-> <<"A", "a">>] }
PRODUCTS == { [name |-> <<"A", " ", "a">>] }

\* Search: filteredData.
filteredData(debouncedValue) ==
    LET query == trim(toLowerCase(debouncedValue)) IN
    IF query = <<>> THEN FRUITS_DATA
    ELSE { item \in FRUITS_DATA :
             \/ includes(toLowerCase(item.name), query)
             \/ includes(toLowerCase(item.color), query)
             \/ includes(toLowerCase(item.season), query) }

\* ProductFilters: filteredProducts with the other filters at their defaults.
filteredProducts(debouncedSearch) ==
    { product \in PRODUCTS :
        includes(toLowerCase(product.name), toLowerCase(debouncedSearch)) }

Shown(view, debouncedValue) ==
    IF view = "Search" THEN filteredData(debouncedValue)
    ELSE filteredProducts(debouncedValue)

\* A render of the view throws iff a card is rendered and its
\* highlightMatch throws; with no match the empty state has no card.
RenderThrows(view, text, debouncedValue) ==
    Shown(view, debouncedValue) # {} /\ highlightMatchThrows(text)

\* useDebounce(value, delay).  A pending timer carries the value it will
\* deliver and the ticks left until it is due.
Timer(v) == [val |-> v, rem |-> DebounceTicks]

\* Mutant: a change of the input leaves the earlier timers pending.
DebounceCancel_NoClear(ts) == ts

\* The pending scheduled update is cancelled.
DebounceCancel(ts) == {}

\* The input changed: cancel what is pending, schedule the latest value.
DebounceSchedule(ts, v) == DebounceCancel(ts) \cup {Timer(v)}

\* Mutant: the teardown of the owning view leaves the timer pending.
DebounceTeardown_Keep(ts) == ts

\* The owning view is torn down.
DebounceTeardown(ts) == {}

\* One tick passes.  A timer is never early; it may be late.
Elapse(ts) ==
    { [val |-> tm.val, rem |-> IF tm.rem > 0 THEN tm.rem - 1 ELSE 0] : tm \in ts }

SearchStep(op, burst) ==
    [op |-> op, pending |-> timers # {}, burst |-> burst]

\* setSearchText(v) with a new text: the view renders again with the typed
\* text and the debounced value as it is; then useDebounce's effect runs.
\* A render that throws takes the view down.
SetSearchText(v) ==
    /\ searchPhase = "mounted"
    /\ v # searchText
    /\ searchText' = v
    /\ quiet' = 0
    /\ IF RenderThrows(searchView, v, debounced)
       THEN /\ searchPhase' = "crashed"
            /\ timers' = DebounceTeardown(timers)
       ELSE /\ searchPhase' = "mounted"
            /\ timers' = DebounceSchedule(timers, v)
    /\ searchLast' = SearchStep("type",
                        IF timers = {} THEN 1
                        ELSE IF searchLast.burst < 2 THEN searchLast.burst + 1
                        ELSE 2)
    /\ UNCHANGED <<searchView, debounced>>
    /\ UNCHANGED exceptSearch

\* handleSearchChange / SET_SEARCH from the input's onChange.
TypeKey(c) ==
    /\ Len(searchText) < MaxText
    /\ SetSearchText(Append(searchText, c))

Backspace ==
    /\ searchText # <<>>
    /\ SetSearchText(SubSeq(searchText, 1, Len(searchText) - 1))

\* The clear button.
handleClear ==
    /\ searchText # <<>>
    /\ SetSearchText(<<>>)

Tick ==
    /\ timers # {} \/ quiet < DebounceTicks
    /\ timers' = Elapse(timers)
    /\ quiet' = IF quiet < DebounceTicks THEN quiet + 1 ELSE quiet
    /\ searchLast' = SearchStep("tick", searchLast.burst)
    /\ UNCHANGED <<searchView, searchPhase, searchText, debounced>>
    /\ UNCHANGED exceptSearch

\* A due timer runs its callback: the output takes the value it carries
\* (React drops the update of a view that is gone) and the view renders.
TimerFires ==
    \E tm \in timers :
        /\ tm.rem = 0
        /\ LET live == searchPhase = "mounted"
               throws == live /\ RenderThrows(searchView, searchText, tm.val)
           IN  /\ debounced' = IF live THEN tm.val ELSE debounced
               /\ searchPhase' = IF throws THEN "crashed" ELSE searchPhase
               /\ timers' = IF throws THEN DebounceTeardown(timers \ {tm})
                            ELSE timers \ {tm}
        /\ searchLast' = SearchStep("fire", searchLast.burst)
        /\ UNCHANGED <<searchView, searchText, quiet>>
        /\ UNCHANGED exceptSearch

\* The user leaves the view.
SearchUnmount ==
    /\ searchPhase = "mounted"
    /\ searchPhase' = "unmounted"
    /\ timers' = DebounceTeardown(timers)
    /\ searchLast' = SearchStep("unmount", searchLast.burst)
    /\ UNCHANGED <<searchView, searchText, debounced, quiet>>
    /\ UNCHANGED exceptSearch

\* The user opens a view: the text is empty and the output is the input.
SearchMount(view) ==
    /\ searchPhase # "mounted"
    /\ searchView' = view
    /\ searchPhase' = "mounted"
    /\ searchText' = <<>>
    /\ debounced' = <<>>
    /\ quiet' = DebounceTicks
    /\ searchLast' = SearchStep("mount", 0)
    /\ UNCHANGED timers
    /\ UNCHANGED exceptSearch

SearchInit ==
    /\ StorageClosed
    /\ SearchClosed
    /\ FetchClosed
    /\ PageClosed
    /\ SolutionClosed
    /\ CounterClosed
    /\ NotesClosed
    /\ CartClosed
    /\ TimerClosed
    /\ FormClosed
    /\ TodoClosed

SearchNext ==
    \/ \E view \in {"Search", "ProductFilters"} : SearchMount(view)
    \/ \E c \in TypedChars : TypeKey(c)
    \/ Backspace
    \/ handleClear
    \/ Tick
    \/ TimerFires
    \/ SearchUnmount

SpecSearch == SearchInit /\ [][SearchNext]_vars

\* C12: while the text changes within the delay of the previous change, one
\* scheduled update is pending at most, and the output changes only to the
\* latest text, once the text has been quiet for the whole delay, leaving
\* nothing scheduled: never to a superseded value, never early, never twice.
C12_DebounceSettling ==
    /\ [](Cardinality(timers) <= 1)
    /\ [][(searchPhase = "mounted" /\ debounced' # debounced) =>
              /\ debounced' = searchText
              /\ quiet = DebounceTicks
              /\ timers' = {}]_vars

\* The output settled on the last text of a burst of changes.
C12_Witness ==
    /\ searchLast.op = "fire"
    /\ searchLast.burst = 2
    /\ searchPhase = "mounted"
    /\ debounced = <<"a", " ">>
    /\ searchText = debounced

\* C13: once the owning view is torn down, nothing is pending, so no update
\* of the output is delivered afterwards.
C13_DebounceCancellation ==
    searchPhase # "mounted" => timers = {}

\* The view was left while an update was pending; the output never took
\* the text that was typed last.
C13_Witness ==
    /\ searchPhase = "unmounted"
    /\ searchLast.op = "unmount"
    /\ searchLast.pending
    /\ searchText = <<"a">>
    /\ debounced = <<>>

\* C14: no render of a search view throws.
C14_SearchNeverThrows ==
    searchPhase # "crashed"

(***************************************************************************)
(* Part 3: FetchUsers.  The challenge page's component ("page") fetches    *)
(* the users in an effect with an AbortController and offers a manual      *)
(* refetch; the plain component ("plain") has the effect only.             *)
(***************************************************************************)
\* Requests that may be in flight at once, those of earlier mounts included.
MaxRequests == 3

FetchVariants == {"page", "plain"}

\* The messages of the errors thrown.
HttpMessage(variant) ==
    IF variant = "page" THEN "HTTP error! Status: 500" ELSE "Failed to fetch users"
NetworkMessage == "Failed to fetch"

\* What the server answers: users, no users, a non-OK status, or nothing.
Outcomes == {"users", "empty", "http", "network"}
Failures == {"http", "network"}

\* A request: which code issued it, whether fetch was given an abort
\* signal, whether that signal has aborted, and whether the component
\* instance that issued it is still mounted.
Request(kind, signal) ==
    [kind |-> kind, signal |-> signal, aborted |-> FALSE, live |-> TRUE]

\* controller.abort(): the fetches that were given the signal are cancelled.
Abort(r) == [r EXCEPT !.aborted = r.signal]

\* The instance goes away: React drops the state updates of what is left.
Detach(r) == [r EXCEPT !.live = FALSE]

\* The rejection of an aborted fetch is a microtask: its continuation runs
\* before the next event or network answer is handled.
MicrotaskQueued == \E r \in requests : r.aborted

\* What the component renders.
View(loading, err, us) ==
    IF loading THEN "loading"
    ELSE IF err # NoError THEN "error"
    ELSE IF us = <<>> THEN "empty"
    ELSE "list"

\* The controls that call handleRefetch: "Try Again" of the error state
\* and "Refresh" of the list, on the challenge page only.
RefetchOffered(variant, view) ==
    variant = "page" /\ view \in {"error", "list"}

FetchStep(op, kind, outcome, live) ==
    [op |-> op, kind |-> kind, outcome |-> outcome, live |-> live]

\* First render and the effect: fetchUsers() with the controller's signal.
\* strict: the development build under StrictMode runs the effect, its
\* cleanup and the effect again.
FetchMount(variant, strict) ==
    /\ fetchPhase = "unmounted"
    /\ ~MicrotaskQueued
    /\ Cardinality(requests) + 2 <= MaxRequests
    /\ fetchVariant' = variant
    /\ fetchPhase' = "mounted"
    /\ users' = <<>>
    /\ isLoading' = TRUE
    /\ error' = NoError
    /\ requests' = requests \cup
          (IF strict
           THEN {Abort(Request("initial", TRUE)), Request("initial", TRUE)}
           ELSE {Request("initial", TRUE)})
    /\ fetchLast' = FetchStep("mount", "initial", "none", TRUE)
    /\ UNCHANGED exceptFetch

\* The effect's cleanup at unmount.
FetchUnmount ==
    /\ fetchPhase = "mounted"
    /\ ~MicrotaskQueued
    /\ fetchPhase' = "unmounted"
    /\ requests' = { IF r.live THEN Detach(Abort(r)) ELSE r : r \in requests }
    /\ fetchLast' = FetchStep("unmount", "none", "none", FALSE)
    /\ UNCHANGED <<fetchVariant, users, isLoading, error>>
    /\ UNCHANGED exceptFetch

\* "Try Again" / "Refresh": fetch(API_ENDPOINT) with no options.
handleRefetch ==
    /\ fetchPhase = "mounted"
    /\ ~MicrotaskQueued
    /\ RefetchOffered(fetchVariant, View(isLoading, error, users))
    /\ Cardinality(requests) < MaxRequests
    /\ isLoading' = TRUE
    /\ error' = NoError
    /\ requests' = requests \cup {Request("refetch", FALSE)}
    /\ fetchLast' = FetchStep("refetch", "refetch", "none", TRUE)
    /\ UNCHANGED <<fetchVariant, fetchPhase, users>>
    /\ UNCHANGED exceptFetch

\* The promise of a request settles and its continuation runs: try/catch/
\* finally of fetchUsers, or then/catch/finally of handleRefetch.  An
\* aborted fetch rejects with an AbortError.
Settle(r, answer) ==
    /\ r \in requests
    /\ MicrotaskQueued => r.aborted
    /\ LET outcome == IF r.aborted THEN "abort" ELSE answer
           message == IF outcome = "http" THEN HttpMessage(fetchVariant)
                      ELSE IF outcome = "network" THEN NetworkMessage
                      ELSE "The user aborted a request."
           applies == r.live /\ fetchPhase = "mounted"
           ignored == r.kind = "initial" /\ outcome = "abort"
       IN  /\ requests' = requests \ {r}
           /\ users' = IF applies /\ outcome \in {"users", "empty"}
                       THEN (IF outcome = "users" THEN <<"user">> ELSE <<>>)
                       ELSE users
           /\ error' = IF applies /\ outcome \in Failures \cup {"abort"} /\ ~ignored
                       THEN message
                       ELSE error
           /\ isLoading' = IF applies THEN FALSE ELSE isLoading
           /\ fetchLast' = FetchStep("settle", r.kind, outcome, applies)
    /\ UNCHANGED <<fetchVariant, fetchPhase>>
    /\ UNCHANGED exceptFetch

FetchInit ==
    /\ StorageClosed
    /\ SearchClosed
    /\ FetchClosed
    /\ PageClosed
    /\ SolutionClosed
    /\ CounterClosed
    /\ NotesClosed
    /\ CartClosed
    /\ TimerClosed
    /\ FormClosed
    /\ TodoClosed

FetchNext ==
    \/ \E variant \in FetchVariants, strict \in BOOLEAN : FetchMount(variant, strict)
    \/ FetchUnmount
    \/ handleRefetch
    \/ \E r \in requests, answer \in Outcomes : Settle(r, answer)

SpecFetch == FetchInit /\ [][FetchNext]_vars

\* C15: one request of the mounted view is outstanding at most, and no
\* request that was outstanding at unmount stays uncancelled.
C15_EveryRequestCancelled ==
    /\ Cardinality({ r \in requests : r.live /\ ~r.aborted }) <= 1
    /\ \A r \in requests : ~r.live => r.aborted

\* C16: an AbortError leaves error as it is; another failure of the
\* mounted view's request sets error and the view shows it with a control
\* that retries; while error is set, only that control issues a request.
C16_ErrorClassification ==
    /\ [][(fetchLast'.op = "settle" /\ fetchLast'.outcome = "abort")
             => error' = error]_vars
    /\ []((fetchLast.op = "settle" /\ fetchLast.live
              /\ fetchLast.outcome \in Failures) =>
             /\ error # NoError
             /\ View(isLoading, error, users) = "error"
             /\ RefetchOffered(fetchVariant, View(isLoading, error, users)))
    /\ [][(fetchPhase = "mounted" /\ error # NoError
              /\ ~(requests' \subseteq requests))
             => fetchLast'.op = "refetch"]_vars

(***************************************************************************)
(* Part 4: Pagination.  itemsPerPage is a JS number and what the user      *)
(* enters need not be whole, so numbers that may be fractional are kept    *)
(* in halves: the value h stands for h/2.  Pages and indices are whole.    *)
(***************************************************************************)
\* useState(5) for itemsPerPage; the limits of handleItemsPerPageChange.
InitialItemsPerPage == 5
MinItemsPerPage == 1
MaxItemsPerPage == 50
\* The length of defaultData.
DefaultDataLength == 15

Halves(n) == 2 * n
Min2(a, b) == IF a <= b THEN a ELSE b
Max2(a, b) == IF a >= b THEN a ELSE b

\* The data prop: the default list, or a shorter list of a caller.
DataLengths == {5, DefaultDataLength}
Data(len) == [i \in 1 .. len |-> i - 1]

\* Number(e.target.value) of the number input, in halves: "", "1", "2",
\* "2.5", "3", "4", "51" and "-1".
EnteredNumbers ==
    {0, Halves(1), Halves(2), Halves(2) + 1, Halves(3), Halves(4), Halves(51),
     Halves(-1)}

\* Mutant: the upper limit is not applied.
ClampItemsPerPage_NoUpper(n) == Max2(Halves(MinItemsPerPage), n)

\* Math.max(1, Math.min(50, n)).
ClampItemsPerPage(n) ==
    Max2(Halves(MinItemsPerPage), Min2(Halves(MaxItemsPerPage), n))

\* Mutant: the page count is rounded down and one is added.
totalPages_FloorPlusOne(len, perPage) == (Halves(len) \div perPage) + 1

\* Math.ceil(data.length / itemsPerPage).
totalPages(len, perPage) == (Halves(len) + perPage - 1) \div perPage

\* Array.prototype.slice(start, end) for start, end >= 0: both are
\* truncated to integers and limited to the length.
slice(data, start, end) ==
    LET k == Min2(start \div 2, Len(data))
        final == Min2(end \div 2, Len(data))
    IN  SubSeq(data, k + 1, final)

visibleRows(data, perPage, page) ==
    LET startIndex == (page - 1) * perPage
        endIndex == startIndex + perPage
    IN  slice(data, startIndex, endIndex)

isFirstPage(page) == page <= 1
isLastPage(page, pages) == page >= pages

handlePrevious(prev) == Max2(1, prev - 1)
handleNext(prev, pages) == Min2(pages, prev + 1)

PageStep(op, entered) ==
    [op |-> op, page |-> currentPage,
     pages |-> totalPages(dataLength, itemsPerPage), entered |-> entered]

\* The user edits the items-per-page field.
handleItemsPerPageChange(n) ==
    /\ dataLength > 0
    /\ itemsPerPage' = ClampItemsPerPage(n)
    /\ currentPage' = 1
    /\ pageLast' = PageStep("perPage", n)
    /\ UNCHANGED dataLength
    /\ UNCHANGED exceptPage

\* The user presses Previous; the button is disabled on the first page.
PressPrevious ==
    /\ dataLength > 0
    /\ currentPage' = IF isFirstPage(currentPage) THEN currentPage
                      ELSE handlePrevious(currentPage)
    /\ pageLast' = PageStep("previous", 0)
    /\ UNCHANGED <<dataLength, itemsPerPage>>
    /\ UNCHANGED exceptPage

\* The user presses Next; the button is disabled on the last page.
PressNext ==
    /\ dataLength > 0
    /\ LET pages == totalPages(dataLength, itemsPerPage) IN
       currentPage' = IF isLastPage(currentPage, pages) THEN currentPage
                      ELSE handleNext(currentPage, pages)
    /\ pageLast' = PageStep("next", 0)
    /\ UNCHANGED <<dataLength, itemsPerPage>>
    /\ UNCHANGED exceptPage

PageInit ==
    /\ StorageClosed
    /\ SearchClosed
    /\ FetchClosed
    /\ SolutionClosed
    /\ CounterClosed
    /\ NotesClosed
    /\ CartClosed
    /\ TimerClosed
    /\ FormClosed
    /\ TodoClosed
    /\ dataLength \in DataLengths
    /\ itemsPerPage = Halves(InitialItemsPerPage)
    /\ currentPage = 1
    /\ pageLast = [op |-> "none", page |-> 0, pages |-> 0, entered |-> 0]

PageNext ==
    \/ \E n \in EnteredNumbers : handleItemsPerPageChange(n)
    \/ PressPrevious
    \/ PressNext

SpecPage == PageInit /\ [][PageNext]_vars

\* C17: the visible rows are the items whose index i satisfies
\* (N-1)*P <= i < N*P and i < L, in list order, and there are
\* min(P, max(0, L - (N-1)*P)) of them.
C17_PaginationSlice ==
    dataLength > 0 =>
        LET rows == visibleRows(Data(dataLength), itemsPerPage, currentPage)
            low == (currentPage - 1) * itemsPerPage
            high == currentPage * itemsPerPage
            within == { i \in 0 .. dataLength - 1 :
                          low <= Halves(i) /\ Halves(i) < high }
        IN  /\ { rows[j] : j \in 1 .. Len(rows) } = within
            /\ \A j \in 1 .. Len(rows) - 1 : rows[j] < rows[j + 1]
            /\ Halves(Len(rows)) =
                  Min2(itemsPerPage, Max2(0, Halves(dataLength) - low))

Hints(n) == [defined |-> TRUE, length |-> n]
NoHints == [defined |-> FALSE, length |-> 0]
Solutions == {NoHints, Hints(0), Hints(3), Hints(4)}

\* revealedHints.includes(index).
Revealed(hints, index) == \E j \in 1 .. Len(hints) : hints[j] = index

\* solution.hints && revealedHints.length === solution.hints.length
allHintsRevealed(sol, hints) == sol.defined /\ Len(hints) = sol.length

\* The condition under which the solution-code block is rendered.
CodeBlockRendered(sol, hints) ==
    allHintsRevealed(sol, hints) \/ ~sol.defined \/ sol.length = 0

\* Mutant: opening the panel resets nothing.
ResetOnOpen_Never(wasOpen, cur, initial) == cur

\* toggleSolution sets a state back to its initial value when it opens
\* the panel.
ResetOnOpen(wasOpen, cur, initial) == IF ~wasOpen THEN initial ELSE cur

SolutionStep(op, index) == [op |-> op, index |-> index, hadCode |-> showCode]

toggleSolution ==
    /\ showSolution' = ~showSolution
    /\ revealedHints' = ResetOnOpen(showSolution, revealedHints, <<>>)
    /\ showCode' = ResetOnOpen(showSolution, showCode, FALSE)
    /\ solutionLast' = SolutionStep("toggle", 0)
    /\ UNCHANGED solution
    /\ UNCHANGED exceptSolution

\* The user clicks the card of a hint; the cards are rendered in the open
\* panel, one per hint.
revealHint(index) ==
    /\ showSolution
    /\ solution.defined /\ index < solution.length
    /\ revealedHints' = IF ~Revealed(revealedHints, index)
                        THEN Append(revealedHints, index)
                        ELSE revealedHints
    /\ solutionLast' = SolutionStep("reveal", index)
    /\ UNCHANGED <<solution, showSolution, showCode>>
    /\ UNCHANGED exceptSolution

\* The "Reveal Solution" button of the code block.
RevealSolution ==
    /\ showSolution
    /\ CodeBlockRendered(solution, revealedHints)
    /\ ~showCode
    /\ showCode' = TRUE
    /\ solutionLast' = SolutionStep("code", 0)
    /\ UNCHANGED <<solution, showSolution, revealedHints>>
    /\ UNCHANGED exceptSolution

SolutionInit ==
    /\ StorageClosed
    /\ SearchClosed
    /\ FetchClosed
    /\ PageClosed
    /\ CounterClosed
    /\ NotesClosed
    /\ CartClosed
    /\ TimerClosed
    /\ FormClosed
    /\ TodoClosed
    /\ solution \in Solutions
    /\ showSolution = FALSE
    /\ revealedHints = <<>>
    /\ showCode = FALSE
    /\ solutionLast = [op |-> "none", index |-> 0, hadCode |-> FALSE]

SolutionNext ==
    \/ toggleSolution
    \/ \E index \in 0 .. 3 : revealHint(index)
    \/ RevealSolution

SpecSolution == SolutionInit /\ [][SolutionNext]_vars

\* C19: the code link is shown only if every hint of the solution is
\* revealed or the solution has no hints; no index is in revealedHints
\* twice; a panel that has just been opened has no hint revealed and the
\* code hidden.
C19_SolutionUnlock ==
    /\ showCode =>
          \/ ~solution.defined \/ solution.length = 0
          \/ \A index \in 0 .. solution.length - 1 :
                Revealed(revealedHints, index)
    /\ \A i, j \in 1 .. Len(revealedHints) :
          i # j => revealedHints[i] # revealedHints[j]
    /\ (solutionLast.op = "toggle" /\ showSolution)
          => revealedHints = <<>> /\ ~showCode

\* The panel was closed with the code shown, and has been opened again.
C19_Witness ==
    /\ solutionLast.op = "toggle"
    /\ solutionLast.hadCode
    /\ showSolution
    /\ solution = Hints(3)
    /\ ~showCode

(***************************************************************************)
(* Part 6: Counter.                                                        *)
(***************************************************************************)
\* How far the model counts.
MaxCount == 40

handleDecrement(prev) == prev - 1
handleIncrement(prev) == prev + 1
handleReset(prev) == 0

\* Mutant: the Decrement button is never disabled.
DecrementDisabled_Never(c) == FALSE

\* disabled={count <= 0} and disabled={count === 0}.
DecrementDisabled(c) == c <= 0
ResetDisabled(c) == c = 0

CounterStep(op) == [op |-> op, count |-> count]

\* A click on a button that is not disabled runs its handler.
Decrement ==
    /\ ~DecrementDisabled(count)
    /\ count' = handleDecrement(count)
    /\ counterLast' = CounterStep("decrement")
    /\ UNCHANGED exceptCounter

Increment ==
    /\ count < MaxCount
    /\ count' = handleIncrement(count)
    /\ counterLast' = CounterStep("increment")
    /\ UNCHANGED exceptCounter

Reset ==
    /\ ~ResetDisabled(count)
    /\ count' = handleReset(count)
    /\ counterLast' = CounterStep("reset")
    /\ UNCHANGED exceptCounter

CounterInit ==
    /\ StorageClosed
    /\ SearchClosed
    /\ FetchClosed
    /\ PageClosed
    /\ SolutionClosed
    /\ NotesClosed
    /\ CartClosed
    /\ TimerClosed
    /\ FormClosed
    /\ TodoClosed
    /\ count = 0
    /\ counterLast = [op |-> "none", count |-> 0]

CounterNext ==
    \/ Decrement
    \/ Increment
    \/ Reset

SpecCounter == CounterInit /\ [][CounterNext]_vars

\* C20: count is a whole number that is never negative; Decrement is never
\* taken at 0; Increment adds one, Decrement subtracts one, Reset gives 0.
C20_CounterLowerBound ==
    /\ count \in Nat
    /\ counterLast.op = "decrement"
          => counterLast.count > 0 /\ count = counterLast.count - 1
    /\ counterLast.op = "increment" => count = counterLast.count + 1
    /\ counterLast.op = "reset" => count = 0

\* Decrement has brought the count down to 0.
C20_Witness ==
    /\ counterLast.op = "decrement"
    /\ counterLast.count = 1
    /\ count = 0

\* C24: a change of items per page sets the page size to the entered
\* number if it lies between 1 and 50, to 1 if it is smaller and to 50 if
\* it is larger, and sets the current page to 1.
C24_PageSizeChange ==
    pageLast.op = "perPage" =>
        /\ currentPage = 1
        /\ itemsPerPage =
              IF pageLast.entered < Halves(1) THEN Halves(1)
              ELSE IF pageLast.entered > Halves(50) THEN Halves(50)
              ELSE pageLast.entered

\* On page 3, 51 was entered: the page size is 50 and the page is 1.
C24_Witness ==
    /\ pageLast.op = "perPage"
    /\ pageLast.page = 3
    /\ pageLast.entered = Halves(51)
    /\ itemsPerPage = Halves(50)
    /\ currentPage = 1

\* C27: while a request of the mounted view that was not aborted is
\* outstanding, isLoading is true.
C27_LoadingWhileOutstanding ==
    (fetchPhase = "mounted" /\ \E r \in requests : r.live /\ ~r.aborted)
        => isLoading

(***************************************************************************)
(* Part 7.  NotesApp: the notes list kept by useLocalStorage in two tabs.   *)
(* A note is known by its id; the list is an array of notes, newest first.  *)
(***************************************************************************)
\* The ids crypto.randomUUID() hands out: never the same one twice.
NoteIds == Numbers

Note(id) == Num(id)

\* The list handleAddNote passes to setNotes: [note, ...notes].
AddedNotes(notes, id) == Arr(<<Note(id)>> \o notes.xs)

\* The list handleDeleteNote passes to setNotes: notes.filter(n => n.id !== id).
DeletedNotes(notes, id) == Arr(SelectSeq(notes.xs, LAMBDA n : n # Note(id)))

\* The list handleClearAll passes to setNotes.
ClearedNotes == Arr(<<>>)

\* setNotes(list) in tab t: the hook's updateValue with the storage
\* available, and what became of each note.
SetNotes(t, list, op, state) ==
    /\ phase[t] = "mounted"
    /\ Room(t)
    /\ value[t].t = "arr"
    /\ LET o == UpdateOutcome(value[t], list, store[NotesKey], TRUE) IN
       /\ value' = [value EXCEPT ![t] = o.val]
       /\ dirty' = [dirty EXCEPT ![t] = TRUE]
       /\ store' = [store EXCEPT ![NotesKey] = o.entry]
       /\ inbox' = Fire(t, StorageEvent(NotesKey, o.entry), o.entry # store[NotesKey])
       /\ last' = Step(op, t, list, TRUE, NoEvent, o.threw, FALSE)
    /\ noteState' = state
    /\ UNCHANGED <<docs, phase, listeners, reads>>
    /\ UNCHANGED exceptNotes

\* Add Note in tab t: the new note goes in front of the list the tab rendered.
handleAddNote(t, id) ==
    /\ noteState[id] = "new"
    /\ SetNotes(t, AddedNotes(value[t], id), "add",
                [noteState EXCEPT ![id] = "added"])

\* Delete on a note the tab shows.
handleDeleteNote(t, id) ==
    /\ value[t].t = "arr"
    /\ \E i \in 1 .. Len(value[t].xs) : value[t].xs[i] = Note(id)
    /\ SetNotes(t, DeletedNotes(value[t], id), "delete",
                [noteState EXCEPT ![id] = "removed"])

\* Clear All, confirmed, in a tab that shows notes.
handleClearAll(t) ==
    /\ value[t].t = "arr"
    /\ value[t].xs # <<>>
    /\ SetNotes(t, ClearedNotes, "clear",
                [id \in NoteIds |-> IF noteState[id] = "new" THEN "new" ELSE "removed"])

NotesInit ==
    /\ docs = Tabs
    /\ store = [k \in Keys |-> NullEntry]
    /\ phase = [t \in Tabs |-> "mounted"]
    /\ value = [t \in Tabs |-> StoreValue]
    /\ listeners = [t \in Tabs |-> EffectSetup(0)]
    /\ dirty = [t \in Tabs |-> FALSE]
    /\ inbox = [t \in Tabs |-> <<>>]
    /\ reads = [t \in Tabs |-> RenderReads(TRUE, FALSE)]
    /\ last = Lifecycle
    /\ noteState = [id \in NoteIds |-> "new"]
    /\ SearchClosed
    /\ FetchClosed
    /\ PageClosed
    /\ SolutionClosed
    /\ CounterClosed
    /\ CartClosed
    /\ TimerClosed
    /\ FormClosed
    /\ TodoClosed

NotesNext ==
    \/ \E t \in Tabs, id \in NoteIds : handleAddNote(t, id)
    \/ \E t \in Tabs, id \in NoteIds : handleDeleteNote(t, id)
    \/ \E t \in Tabs : handleClearAll(t)
    \/ \E t \in Tabs : Deliver(t)
    \/ \E t \in Tabs : RerunEffect(t)

SpecNotes == NotesInit /\ [][NotesNext]_vars

\* The ids of the notes in the stored list.
StoredNoteIds ==
    IF StoreValue.t = "arr"
    THEN {id \in NoteIds : \E i \in 1 .. Len(StoreValue.xs) : StoreValue.xs[i] = Note(id)}
    ELSE {}

\* C28 (as claimed): once every change notification was delivered, the
\* stored notes list contains every note that was added in either tab and
\* was not deleted or cleared.
C28_NoNoteLost ==
    Quiescent => \A id \in NoteIds : noteState[id] = "added" => id \in StoredNoteIds

(***************************************************************************)
(* Part 8.  ShoppingCart: cartReducer, the product cards and the cart.      *)
(* An entry is a product, known by its id, with a quantity.                 *)
(***************************************************************************)
\* The products on sale (the first of defaultProducts).
ProductIds == {1, 2}

\* The quantity select of a product card offers 1 .. MaxSelect.
MaxSelect == 3

\* Quantities in the cart are followed up to MaxQuantity.
MaxQuantity == 6

SelectOptions == 1 .. MaxSelect

InitialQuantity == 1

CartEntry(id, quantity) == [id |-> id, quantity |-> quantity]

\* The actions of CART_ACTIONS; item and id are both known by the id.
CartAction(type, id, quantity) == [type |-> type, id |-> id, quantity |-> quantity]

\* state.find((i) => i.id === item.id) finds an entry.
Existing(state, id) == \E k \in 1 .. Len(state) : state[k].id = id

\* A reducer whose ADD_ITEM always appends.
cartReducer_NoMerge(state, action) ==
    CASE action.type = "ADD_ITEM" ->
            Append(state, CartEntry(action.id, action.quantity))
      [] action.type = "REMOVE_ITEM" ->
            SelectSeq(state, LAMBDA i : i.id # action.id)
      [] action.type = "UPDATE_QUANTITY" ->
            [k \in 1 .. Len(state) |->
                IF state[k].id = action.id
                THEN [state[k] EXCEPT !.quantity = action.quantity]
                ELSE state[k]]
      [] action.type = "CLEAR_CART" -> <<>>
      [] OTHER -> state

\* cartReducer: the state the reducer returns.
cartReducer(state, action) ==
    CASE action.type = "ADD_ITEM" ->
            IF Existing(state, action.id)
            THEN [k \in 1 .. Len(state) |->
                    IF state[k].id = action.id
                    THEN [state[k] EXCEPT !.quantity = @ + action.quantity]
                    ELSE state[k]]
            ELSE Append(state, CartEntry(action.id, action.quantity))
      [] action.type = "REMOVE_ITEM" ->
            SelectSeq(state, LAMBDA i : i.id # action.id)
      [] action.type = "UPDATE_QUANTITY" ->
            [k \in 1 .. Len(state) |->
                IF state[k].id = action.id
                THEN [state[k] EXCEPT !.quantity = action.quantity]
                ELSE state[k]]
      [] action.type = "CLEAR_CART" -> <<>>
      [] OTHER -> state

\* The array the reducer was given, as it is once the reducer returned:
\* find, map, filter and the spread read it and build new arrays and new
\* entry objects; no branch assigns to it or to one of its entries.
GivenAfter(state, action) == state

\* ShoppingCart handleUpdateQuantity that always dispatches UPDATE_QUANTITY.
handleUpdateQuantity_NoRemove(state, id, quantity) ==
    cartReducer(state, CartAction("UPDATE_QUANTITY", id, quantity))

\* ShoppingCart handleUpdateQuantity: the action it dispatches.
handleUpdateQuantity(state, id, quantity) ==
    IF quantity <= 0
    THEN cartReducer(state, CartAction("REMOVE_ITEM", id, 0))
    ELSE cartReducer(state, CartAction("UPDATE_QUANTITY", id, quantity))

\* ProductCard handleQuantityChange: Math.max(1, Math.min(99, Number(value))).
handleQuantityChange(entered) == Max2(1, Min2(99, entered))

\* Cart totalItems: cartItems.reduce((sum, item) => sum + item.quantity, 0).
RECURSIVE Reduce(_, _)
Reduce(state, sum) ==
    IF state = <<>> THEN sum
    ELSE Reduce(Tail(state), sum + Head(state).quantity)

totalItems(state) == Reduce(state, 0)

\* The quantity of the entry with this id, 0 if there is none.
QuantityOf(state, id) ==
    IF Existing(state, id)
    THEN (CHOOSE e \in {state[k] : k \in 1 .. Len(state)} : e.id = id).quantity
    ELSE 0

CartStep(op, id, quantity, action) ==
    [op |-> op, id |-> id, quantity |-> quantity,
     before |-> cartItems, given |-> GivenAfter(cartItems, action)]

\* A product card's quantity select changes.
SelectQuantity(id, entered) ==
    /\ selected' = [selected EXCEPT ![id] = handleQuantityChange(entered)]
    /\ cartLast' = [op |-> "select", id |-> id, quantity |-> entered,
                    before |-> cartItems, given |-> cartItems]
    /\ UNCHANGED cartItems
    /\ UNCHANGED exceptCart

\* ProductCard handleAdd: Add to Cart with the selected quantity, which
\* goes back to 1.
handleAdd(id) ==
    LET action == CartAction("ADD_ITEM", id, selected[id]) IN
    /\ QuantityOf(cartItems, id) + selected[id] <= MaxQuantity
    /\ cartItems' = cartReducer(cartItems, action)
    /\ selected' = [selected EXCEPT ![id] = InitialQuantity]
    /\ cartLast' = CartStep("add", id, selected[id], action)
    /\ UNCHANGED exceptCart

\* The + button of a cart item.
IncreaseQuantity(id) ==
    LET quantity == QuantityOf(cartItems, id) + 1 IN
    /\ Existing(cartItems, id)
    /\ quantity <= MaxQuantity
    /\ cartItems' = handleUpdateQuantity(cartItems, id, quantity)
    /\ cartLast' = CartStep("increase", id, quantity,
                            CartAction("UPDATE_QUANTITY", id, quantity))
    /\ UNCHANGED selected
    /\ UNCHANGED exceptCart

\* The - button of a cart item.
DecreaseQuantity(id) ==
    LET quantity == QuantityOf(cartItems, id) - 1 IN
    /\ Existing(cartItems, id)
    /\ cartItems' = handleUpdateQuantity(cartItems, id, quantity)
    /\ cartLast' = CartStep("decrease", id, quantity,
                            IF quantity <= 0
                            THEN CartAction("REMOVE_ITEM", id, 0)
                            ELSE CartAction("UPDATE_QUANTITY", id, quantity))
    /\ UNCHANGED selected
    /\ UNCHANGED exceptCart

\* The Remove button of a cart item.
handleRemoveFromCart(id) ==
    LET action == CartAction("REMOVE_ITEM", id, 0) IN
    /\ Existing(cartItems, id)
    /\ cartItems' = cartReducer(cartItems, action)
    /\ cartLast' = CartStep("remove", id, 0, action)
    /\ UNCHANGED selected
    /\ UNCHANGED exceptCart

\* Clear All, shown while the cart has entries.
handleClearCart ==
    LET action == CartAction("CLEAR_CART", 0, 0) IN
    /\ cartItems # <<>>
    /\ cartItems' = cartReducer(cartItems, action)
    /\ cartLast' = CartStep("clear", 0, 0, action)
    /\ UNCHANGED selected
    /\ UNCHANGED exceptCart

CartInit ==
    /\ cartItems = <<>>
    /\ selected = [id \in ProductIds |-> InitialQuantity]
    /\ cartLast = [op |-> "none", id |-> 0, quantity |-> 0,
                   before |-> <<>>, given |-> <<>>]
    /\ StorageClosed
    /\ SearchClosed
    /\ FetchClosed
    /\ PageClosed
    /\ SolutionClosed
    /\ CounterClosed
    /\ NotesClosed
    /\ TimerClosed
    /\ FormClosed
    /\ TodoClosed

CartNext ==
    \/ \E id \in ProductIds, entered \in SelectOptions : SelectQuantity(id, entered)
    \/ \E id \in ProductIds : handleAdd(id)
    \/ \E id \in ProductIds : IncreaseQuantity(id)
    \/ \E id \in ProductIds : DecreaseQuantity(id)
    \/ \E id \in ProductIds : handleRemoveFromCart(id)
    \/ handleClearCart

SpecCart == CartInit /\ [][CartNext]_vars

(***************************************************************************)
(* Claims about the shopping cart.                                         *)
(***************************************************************************)
NoDuplicateIds(state) ==
    \A j, k \in 1 .. Len(state) : j # k => state[j].id # state[k].id

RECURSIVE SumQuantities(_, _)
SumQuantities(state, ids) ==
    IF ids = {} THEN 0
    ELSE LET id == CHOOSE i \in ids : TRUE
         IN  QuantityOf(state, id) + SumQuantities(state, ids \ {id})

\* C29: every entry of the cart has a whole quantity of at least 1; the -
\* button on an entry of quantity 1 removes the entry; the item count shown
\* is the sum of the quantities of the entries.
C29_QuantitiesPositive ==
    /\ \A k \in 1 .. Len(cartItems) :
          cartItems[k].quantity \in Nat /\ cartItems[k].quantity >= 1
    /\ (cartLast.op = "decrease" /\ QuantityOf(cartLast.before, cartLast.id) = 1)
          => ~Existing(cartItems, cartLast.id)
    /\ totalItems(cartItems) = SumQuantities(cartItems, ProductIds)

\* The - button was pressed on the entry of product 2, which had quantity 1.
C29_Witness ==
    /\ cartLast.op = "decrease"
    /\ cartLast.before = <<CartEntry(1, 2), CartEntry(2, 1)>>
    /\ cartItems = <<CartEntry(1, 2)>>
    /\ totalItems(cartItems) = 2

(***************************************************************************)
(* Part 9.  Timer: a stopwatch whose interval is managed by an effect with  *)
(* dependency isRunning.  The "route" Timer sets intervalRef.current to     *)
(* null in its cleanup, the "challenge" Timer leaves the old id in it.      *)
(* A click is a discrete event: React renders and runs the cleanup and the  *)
(* effect before the handler's event is over.                               *)
(***************************************************************************)
\* Seconds are counted up to MaxTime.
MaxTime == 3

\* setInterval is followed for MaxIntervals calls; ids are never reused.
MaxIntervals == 3

TimerVariants == {"route", "challenge"}

NullRef == 0

\* The effect: if (isRunning) intervalRef.current = setInterval(...).
TimerEffect(running, ref, active, fresh) ==
    IF running
    THEN [ref |-> fresh, active |-> active \cup {fresh}, next |-> fresh + 1]
    ELSE [ref |-> ref, active |-> active, next |-> fresh]

\* A cleanup that forgets the interval without clearing it.
TimerCleanup_NoClear(variant, ref, active) ==
    [ref |-> NullRef, active |-> active]

\* The effect's cleanup: if (intervalRef.current) clearInterval(it), and in
\* the route Timer intervalRef.current = null.
TimerCleanup(variant, ref, active) ==
    IF ref # NullRef
    THEN [ref |-> IF variant = "route" THEN NullRef ELSE ref,
          active |-> active \ {ref}]
    ELSE [ref |-> ref, active |-> active]

\* The commit of a render: with isRunning changed, the cleanup of the last
\* effect and then the effect; with isRunning as it was, neither.
TimerCommit(variant, was, now, ref, active, fresh) ==
    IF was = now
    THEN [ref |-> ref, active |-> active, next |-> fresh]
    ELSE LET c == TimerCleanup(variant, ref, active)
         IN  TimerEffect(now, c.ref, c.active, fresh)

\* A tick that counts two seconds.
TickUpdate_Double(prev) == prev + 2

\* The interval's callback: setTime((prev) => prev + 1).
TickUpdate(prev) == prev + 1

\* Start (Resume) is offered while the timer is not running, Pause while it
\* is running.
StartOffered(running) == ~running
PauseOffered(running) == running

\* Reset: the route Timer disables it at time 0 while stopped.
TimerResetDisabled(variant, t, running) ==
    variant = "route" /\ t = 0 /\ ~running

TimerStep(op) == [op |-> op, time |-> time, running |-> isRunning]

\* A Timer is put on screen: a new instance renders.
TimerRender(variant) ==
    /\ timerPhase = "unmounted"
    /\ timerVariant' = variant
    /\ timerPhase' = "rendered"
    /\ time' = 0
    /\ isRunning' = FALSE
    /\ intervalRef' = NullRef
    /\ timerLast' = TimerStep("render")
    /\ UNCHANGED <<intervals, nextInterval>>
    /\ UNCHANGED exceptTimer

\* The effects of the first render run; under StrictMode the effect is
\* run, cleaned up and run again.
TimerMountEffect(strict) ==
    /\ timerPhase = "rendered"
    /\ timerPhase' = "mounted"
    /\ LET e1 == TimerEffect(isRunning, intervalRef, intervals, nextInterval)
           c  == TimerCleanup(timerVariant, e1.ref, e1.active)
           e2 == TimerEffect(isRunning, c.ref, c.active, e1.next)
           e  == IF strict THEN e2 ELSE e1
       IN  /\ intervalRef' = e.ref
           /\ intervals' = e.active
           /\ nextInterval' = e.next
    /\ timerLast' = TimerStep("effects")
    /\ UNCHANGED <<timerVariant, time, isRunning>>
    /\ UNCHANGED exceptTimer

\* A handler set isRunning and time: render, cleanup and effect follow.
TimerSet(op, running, t) ==
    /\ timerPhase = "mounted"
    /\ isRunning' = running
    /\ time' = t
    /\ LET e == TimerCommit(timerVariant, isRunning, running, intervalRef,
                            intervals, nextInterval)
       IN  /\ intervalRef' = e.ref
           /\ intervals' = e.active
           /\ nextInterval' = e.next
    /\ timerLast' = TimerStep(op)
    /\ UNCHANGED <<timerVariant, timerPhase>>
    /\ UNCHANGED exceptTimer

\* handleStart: setIsRunning(true).
TimerStart ==
    /\ StartOffered(isRunning)
    /\ nextInterval <= MaxIntervals
    /\ TimerSet("start", TRUE, time)

\* handlePause: setIsRunning(false).
TimerPause ==
    /\ PauseOffered(isRunning)
    /\ TimerSet("pause", FALSE, time)

\* handleReset: setIsRunning(false); setTime(0).
TimerReset ==
    /\ ~TimerResetDisabled(timerVariant, time, isRunning)
    /\ TimerSet("reset", FALSE, 0)

\* An active interval fires: its callback updates time, unless the Timer
\* it belongs to is gone (React drops the update).
IntervalFires(id) ==
    /\ id \in intervals
    /\ time < MaxTime
    /\ time' = IF timerPhase = "unmounted" THEN time ELSE TickUpdate(time)
    /\ timerLast' = TimerStep("tick")
    /\ UNCHANGED <<timerVariant, timerPhase, isRunning, intervalRef,
                   intervals, nextInterval>>
    /\ UNCHANGED exceptTimer

\* The Timer is removed: pending effects are flushed, then cleaned up.
TimerUnmount ==
    /\ timerPhase \in {"rendered", "mounted"}
    /\ timerPhase' = "unmounted"
    /\ LET e == IF timerPhase = "rendered"
                THEN TimerEffect(isRunning, intervalRef, intervals, nextInterval)
                ELSE [ref |-> intervalRef, active |-> intervals,
                      next |-> nextInterval]
           c == TimerCleanup(timerVariant, e.ref, e.active)
       IN  /\ intervalRef' = c.ref
           /\ intervals' = c.active
           /\ nextInterval' = e.next
    /\ timerLast' = TimerStep("unmount")
    /\ UNCHANGED <<timerVariant, time, isRunning>>
    /\ UNCHANGED exceptTimer

TimerInit ==
    /\ TimerClosed
    /\ StorageClosed
    /\ SearchClosed
    /\ FetchClosed
    /\ PageClosed
    /\ SolutionClosed
    /\ CounterClosed
    /\ NotesClosed
    /\ CartClosed
    /\ FormClosed
    /\ TodoClosed

TimerNext ==
    \/ \E variant \in TimerVariants : TimerRender(variant)
    \/ \E strict \in BOOLEAN : TimerMountEffect(strict)
    \/ TimerStart
    \/ TimerPause
    \/ TimerReset
    \/ \E id \in 1 .. MaxIntervals : IntervalFires(id)
    \/ TimerUnmount

SpecTimer == TimerInit /\ [][TimerNext]_vars

\* C22: at most one interval is active; once the effects have run, an
\* interval is active exactly when isRunning is true; after Pause, Reset
\* and unmount no interval is active.
C22_IntervalDiscipline ==
    /\ Cardinality(intervals) <= 1
    /\ timerPhase = "mounted" => (isRunning <=> intervals # {})
    /\ timerLast.op \in {"pause", "reset", "unmount"} => intervals = {}

\* The challenge Timer was paused after a second start: the interval of
\* the second start is cleared although the ref held an old id before it.
C22_Witness ==
    /\ timerVariant = "challenge"
    /\ timerLast.op = "pause"
    /\ timerLast.running
    /\ intervalRef = 2
    /\ intervals = {}

\* C23: Reset leaves the timer stopped at time 0; a step that is neither a
\* tick, a Reset nor a new Timer leaves time as it is - so Pause and the
\* Start after it keep the time; a tick happens only while running and adds
\* exactly 1; while the timer is stopped time does not grow.
C23_ResetAndPause ==
    /\ [](timerLast.op = "reset" => (~isRunning /\ time = 0))
    /\ [][/\ timerLast'.op = "tick" =>
                (isRunning /\ time' = time + 1) \/ timerPhase = "unmounted"
          /\ timerLast'.op \in {"start", "pause", "effects", "unmount"} =>
                time' = time
          /\ ~isRunning /\ timerPhase = "mounted" /\ timerLast'.op # "reset"
                /\ timerLast'.op # "unmount" => time' = time
          /\ timerLast'.op = "start" => isRunning'
          /\ timerLast'.op = "pause" => ~isRunning']_vars

\* Start was pressed on a paused timer showing 2, and a tick made it 3.
C23_Witness ==
    /\ timerLast.op = "tick"
    /\ timerLast.time = 2
    /\ timerLast.running
    /\ time = 3
    /\ nextInterval = 3

(***************************************************************************)
(* Part 10.  FormWithValidation: three validated fields, a simulated        *)
(* request of 1500 ms and an automatic reset 2000 ms after its success.     *)
(* A string is the sequence of its characters.                              *)
(***************************************************************************)
\* Automatic resets are followed while at most MaxResets are scheduled.
MaxResets == 2

Fields == {"name", "email", "password"}

\* VALIDATION: the lengths it names.
VALIDATION == [nameMin |-> 2, nameMax |-> 50, passwordMin |-> 8]

Letters == {"A", "a", "b", "c", "l"}

Repeat(c, n) == [i \in 1 .. n |-> c]

\* What the user enters in each field.
FieldValues ==
    [name     |-> {<<>>, <<" ", " ">>, <<"A">>, <<"A", "l">>, <<"A", "1">>},
     email    |-> {<<>>, <<"a", "@", "b">>, <<"a", "@", "b", ".", "c">>,
                   <<"a", " ", "@", "b", ".", "c">>},
     password |-> {<<>>, Repeat("a", 7), Repeat("a", 8)}]

\* /^[a-zA-Z\s'-]+$/.test(value)
NamePattern(text) ==
    /\ text # <<>>
    /\ \A i \in 1 .. Len(text) : text[i] \in Letters \cup {" ", "'", "-"}

\* /^[^\s@]+@[^\s@]+\.[^\s@]+$/.test(value)
EmailPattern(text) ==
    \E i, j \in 1 .. Len(text) :
        /\ 1 < i /\ i + 1 < j /\ j < Len(text)
        /\ text[i] = "@"
        /\ text[j] = "."
        /\ \A k \in 1 .. Len(text) : k # i => text[k] \notin {"@", " "}

\* validateField: the error message, "" for none.
validateField(field, text) ==
    IF trim(text) = <<>> THEN "required"
    ELSE IF field = "name" THEN
        IF Len(text) < VALIDATION.nameMin THEN "Name must be at least 2 characters"
        ELSE IF Len(text) > VALIDATION.nameMax THEN "Name must be less than 50 characters"
        ELSE IF ~NamePattern(text)
        THEN "Name can only contain letters, spaces, hyphens, and apostrophes"
        ELSE ""
    ELSE IF field = "email" THEN
        IF ~EmailPattern(text) THEN "Please enter a valid email address" ELSE ""
    ELSE IF field = "password" THEN
        IF Len(text) < VALIDATION.passwordMin
        THEN "Password must be at least 8 characters"
        ELSE ""
    ELSE ""

\* errors: the error of each field of the form data.
errors(data) == [f \in Fields |-> validateField(f, data[f])]

\* isFormValid: Object.values(errors).every((error) => error === '').
isFormValid(errs) == \A f \in Fields : errs[f] = ""

EmptyForm == [name |-> <<>>, email |-> <<>>, password |-> <<>>]

Untouched == [name |-> FALSE, email |-> FALSE, password |-> FALSE]

AllTouched == [name |-> TRUE, email |-> TRUE, password |-> TRUE]

\* A handleSubmit that goes on whatever the form holds.
SubmitStarts_Always(valid) == TRUE

\* handleSubmit: if (!isFormValid) return.
SubmitStarts(valid) == valid

FormStep(op) ==
    [op |-> op, valid |-> isFormValid(errors(formData)),
     submitting |-> isSubmitting, status |-> submitStatus, request |-> request]

\* handleChange: the field takes the value, the status is cleared.
handleChange(field, text) ==
    /\ formData' = [formData EXCEPT ![field] = text]
    /\ submitStatus' = "null"
    /\ formLast' = FormStep("change")
    /\ UNCHANGED <<touched, isSubmitting, request, succeeded, resets>>
    /\ UNCHANGED exceptForm

\* handleBlur: the field is touched.
handleBlur(field) ==
    /\ touched' = [touched EXCEPT ![field] = TRUE]
    /\ formLast' = FormStep("blur")
    /\ UNCHANGED <<formData, isSubmitting, submitStatus, request, succeeded, resets>>
    /\ UNCHANGED exceptForm

\* handleSubmit up to its await; the submit button is disabled while
\* isSubmitting.
handleSubmit ==
    LET valid == isFormValid(errors(formData)) IN
    /\ ~isSubmitting
    /\ touched' = AllTouched
    /\ IF SubmitStarts(valid)
       THEN /\ isSubmitting' = TRUE
            /\ request' = IF valid THEN "valid" ELSE "invalid"
       ELSE UNCHANGED <<isSubmitting, request>>
    /\ formLast' = FormStep("submit")
    /\ UNCHANGED <<formData, submitStatus, succeeded, resets>>
    /\ UNCHANGED exceptForm

\* The 1500 ms are over: handleSubmit goes on after its await and
\* schedules the automatic reset.
RequestResolves ==
    /\ request # "none"
    /\ resets < MaxResets
    /\ isSubmitting' = FALSE
    /\ submitStatus' = "success"
    /\ succeeded' = request
    /\ request' = "none"
    /\ resets' = resets + 1
    /\ formLast' = FormStep("resolve")
    /\ UNCHANGED <<formData, touched>>
    /\ UNCHANGED exceptForm

\* The 2000 ms of an automatic reset are over.
AutomaticReset ==
    /\ resets > 0
    /\ resets' = resets - 1
    /\ formData' = EmptyForm
    /\ touched' = Untouched
    /\ submitStatus' = "null"
    /\ formLast' = FormStep("autoReset")
    /\ UNCHANGED <<isSubmitting, request, succeeded>>
    /\ UNCHANGED exceptForm

\* handleReset: the Reset button.
FormReset ==
    /\ formData' = EmptyForm
    /\ touched' = Untouched
    /\ submitStatus' = "null"
    /\ formLast' = FormStep("reset")
    /\ UNCHANGED <<isSubmitting, request, succeeded, resets>>
    /\ UNCHANGED exceptForm

FormInit ==
    /\ FormClosed
    /\ StorageClosed
    /\ SearchClosed
    /\ FetchClosed
    /\ PageClosed
    /\ SolutionClosed
    /\ CounterClosed
    /\ NotesClosed
    /\ CartClosed
    /\ TimerClosed
    /\ TodoClosed

FormNext ==
    \/ \E field \in Fields : \E text \in FieldValues[field] : handleChange(field, text)
    \/ \E field \in Fields : handleBlur(field)
    \/ handleSubmit
    \/ RequestResolves
    \/ AutomaticReset
    \/ FormReset

SpecForm == FormInit /\ [][FormNext]_vars

\* C25: a submit of a form with an invalid field marks the three fields
\* touched and leaves isSubmitting, the status and the request as they
\* were; isSubmitting is true, and the status is success, only by a request
\* that a submit of a form with three valid fields started.
C25_SubmitGating ==
    /\ (formLast.op = "submit" /\ ~formLast.valid) =>
          /\ touched = AllTouched
          /\ ~isSubmitting
          /\ submitStatus = formLast.status
          /\ request = formLast.request
    /\ isSubmitting => request = "valid"
    /\ submitStatus = "success" => succeeded = "valid"
    /\ request # "invalid"

\* A submit with a valid name, a valid password and an invalid email.
C25_Witness ==
    /\ formLast.op = "submit"
    /\ ~formLast.valid
    /\ formData.name = <<"A", "l">>
    /\ formData.email = <<"a", "@", "b">>
    /\ formData.password = Repeat("a", 8)
    /\ touched = AllTouched
    /\ request = "none"

\* C26 (as claimed): whenever submitStatus is success, the form data held
\* passes validation.
C26_SuccessImpliesValid ==
    submitStatus = "success" => isFormValid(errors(formData))

(***************************************************************************)
(* Part 11.  TodoList: todos with a status, a text input, a filter and the  *)
(* statistics shown.                                                        *)
(***************************************************************************)
\* Todos are followed for MaxTodos additions; ids are never reused.
MaxTodos == 3

FILTER_OPTIONS == {"All", "Pending", "Completed"}

\* The texts typed in the input field.
InputTexts == {<<>>, <<" ">>, <<"a">>, <<" ", "b", " ">>}

Todo(id, txt, status) == [id |-> id, text |-> txt, status |-> status]

\* filteredTodos: the todos shown under a filter.
filteredTodos(list, option) ==
    IF option = "Pending" THEN SelectSeq(list, LAMBDA todo : todo.status = "Pending")
    ELSE IF option = "Completed"
    THEN SelectSeq(list, LAMBDA todo : todo.status = "Completed")
    ELSE list

\* stats: the three counts shown.
stats(list) ==
    [total     |-> Len(list),
     pending   |-> Len(SelectSeq(list, LAMBDA t : t.status = "Pending")),
     completed |-> Len(SelectSeq(list, LAMBDA t : t.status = "Completed"))]

\* handleAddTodo's update: [...prev, newTodo], newTodo with status Pending.
AddedTodos(prev, id, txt) == Append(prev, Todo(id, txt, "Pending"))

\* handleCompleteTodo's update.
CompletedTodos(prev, id) ==
    [k \in 1 .. Len(prev) |->
        IF prev[k].id = id THEN [prev[k] EXCEPT !.status = "Completed"] ELSE prev[k]]

\* handleDeleteTodo's update.
DeletedTodos(prev, id) == SelectSeq(prev, LAMBDA todo : todo.id # id)

\* A Clear Completed that empties the list.
ClearedTodos_All(prev) == <<>>

\* handleClearCompleted's update.
ClearedTodos(prev) == SelectSeq(prev, LAMBDA todo : todo.status # "Completed")

\* The todo with this id is on screen.
TodoShown(id) ==
    \E k \in 1 .. Len(filteredTodos(todos, filter)) :
        filteredTodos(todos, filter)[k].id = id

TodoStep(op, id) == [op |-> op, id |-> id, input |-> inputText, before |-> todos]

\* The input field changes.
setInputText(txt) ==
    /\ inputText' = txt
    /\ todoLast' = TodoStep("input", 0)
    /\ UNCHANGED <<todos, filter, nextTodo>>
    /\ UNCHANGED exceptTodo

\* A filter button is pressed.
setFilter(option) ==
    /\ filter' = option
    /\ todoLast' = TodoStep("filter", 0)
    /\ UNCHANGED <<todos, inputText, nextTodo>>
    /\ UNCHANGED exceptTodo

\* handleAddTodo, by the Add button or the Enter key: nothing happens for
\* a text that trims to the empty string.
handleAddTodo ==
    /\ nextTodo <= MaxTodos
    /\ IF trim(inputText) = <<>>
       THEN UNCHANGED <<todos, inputText, nextTodo>>
       ELSE /\ todos' = AddedTodos(todos, nextTodo, trim(inputText))
            /\ inputText' = <<>>
            /\ nextTodo' = nextTodo + 1
    /\ todoLast' = TodoStep("add", nextTodo)
    /\ UNCHANGED filter
    /\ UNCHANGED exceptTodo

\* The Complete button of a todo on screen; it is disabled on a completed
\* todo.
handleCompleteTodo(id) ==
    /\ TodoShown(id)
    /\ \E k \in 1 .. Len(todos) : todos[k].id = id /\ todos[k].status # "Completed"
    /\ todos' = CompletedTodos(todos, id)
    /\ todoLast' = TodoStep("complete", id)
    /\ UNCHANGED <<inputText, filter, nextTodo>>
    /\ UNCHANGED exceptTodo

\* The Delete button of a todo on screen.
handleDeleteTodo(id) ==
    /\ TodoShown(id)
    /\ todos' = DeletedTodos(todos, id)
    /\ todoLast' = TodoStep("delete", id)
    /\ UNCHANGED <<inputText, filter, nextTodo>>
    /\ UNCHANGED exceptTodo

\* Clear Completed, shown while stats.completed > 0.
handleClearCompleted ==
    /\ stats(todos).completed > 0
    /\ todos' = ClearedTodos(todos)
    /\ todoLast' = TodoStep("clear", 0)
    /\ UNCHANGED <<inputText, filter, nextTodo>>
    /\ UNCHANGED exceptTodo

TodoInit ==
    /\ TodoClosed
    /\ StorageClosed
    /\ SearchClosed
    /\ FetchClosed
    /\ PageClosed
    /\ SolutionClosed
    /\ CounterClosed
    /\ NotesClosed
    /\ CartClosed
    /\ TimerClosed
    /\ FormClosed

TodoNext ==
    \/ \E txt \in InputTexts : setInputText(txt)
    \/ \E option \in FILTER_OPTIONS : setFilter(option)
    \/ handleAddTodo
    \/ \E id \in 1 .. MaxTodos : handleCompleteTodo(id)
    \/ \E id \in 1 .. MaxTodos : handleDeleteTodo(id)
    \/ handleClearCompleted

SpecTodo == TodoInit /\ [][TodoNext]_vars

\* The places of a list whose todo has one of the statuses, and the k-th
\* of them from the front.
PlacesOf(list, statuses) == {i \in 1 .. Len(list) : list[i].status \in statuses}

KthPlace(places, k) == CHOOSE i \in places : Cardinality({j \in places : j < i}) = k - 1

\* The list holds exactly the todos of another list with one of the
\* statuses, in that list's order.
ExactlyThoseOf(view, list, statuses) ==
    /\ Len(view) = Cardinality(PlacesOf(list, statuses))
    /\ \A k \in 1 .. Len(view) : view[k] = list[KthPlace(PlacesOf(list, statuses), k)]

StatusOf(list, id) ==
    IF \E k \in 1 .. Len(list) : list[k].id = id
    THEN (CHOOSE todo \in {list[k] : k \in 1 .. Len(list)} : todo.id = id).status
    ELSE "none"

====
